---- MODULE Spec2Model ----
(***************************************************************************)
(* A state-machine model of sane-figs: the four library adapters           *)
(* (matplotlib, seaborn, plotly, altair), the library globals they mutate, *)
(* the discovery service, the style registry, the preset registry and the  *)
(* global apply / reset / publication_style orchestration.                 *)
(*                                                                         *)
(* Conventions.  An optional Python value (x or None) is a sequence of     *)
(* length at most one: << >> is None, <<x>> is the value x.  A callable    *)
(* such as pyplot.savefig is the sequence of the wrappers stacked on the   *)
(* library's own function, outermost first: << >> is the library's own     *)
(* function, <<"seaborn", "matplotlib">> is the seaborn wrapper calling    *)
(* the matplotlib wrapper calling the library's function.                  *)
(***************************************************************************)
EXTENDS Integers, Sequences, FiniteSets, TLC

\* ------------------------------------------------------------------ bounds

\* Deepest stack of watermark wrappers on one entry point that is explored.
MaxWrapDepth == 2

\* Deepest nesting of publication_style blocks that is explored.
MaxNesting == 2

\* Most watermarks on one figure that are explored.
MaxMarks == 3

\* Most calls of clear_cache that are explored.
MaxClears == 2

\* --------------------------------------------------------------- constants

Libs == {"matplotlib", "seaborn", "plotly", "altair"}

\* DiscoveryService._LIBRARY_INFO, in its iteration order.
LIBRARY_INFO == <<"matplotlib", "seaborn", "plotly", "altair">>

None == << >>

Some(x) == <<x>>

NoColorway == "None"

NoWatermark == "None"

\* matplotlib.rcParams as the library ships it: [style, cycle], the style keys
\* and the color cycle.
LibRc == [style |-> <<"lib", "-">>, cycle |-> "lib"]

UserRc == [style |-> <<"user", "-">>, cycle |-> "user"]

\* A plotly template that is not registered.
NoTemplate == [preset |-> "-", cycle |-> "-"]

\* ------------------------------------------------------------------- state

VARIABLES
    avail,      \* the libraries that can be imported in this process
    lib,        \* the libraries' process-wide globals
    ad,         \* the adapter instances the discovery service hands out, one
                \* per library (nothing in the program clears its cache)
    cyc,        \* per adapter: where it is in its apply/reset cycle (history)
    presets,    \* _PRESET_REGISTRY: name -> the mutable fields of the Preset
    colorways,  \* _COLORWAY_REGISTRY: name -> Colorway
    registry,   \* StyleRegistry: four partial maps keyed by adapter name
    discovery,  \* DiscoveryService: _cache and _adapter_cache
    global_before, \* per adapter: its library's configuration before the
                \* first global apply since the last global reset (history)
    contexts,   \* the PublicationStyleContext objects whose block is open
    last        \* the last operation, its input and its outcome (history)

vars == <<avail, lib, ad, cyc, presets, colorways, registry, discovery,
          global_before, contexts, last>>

\* ---------------------------------------------------------- library globals

InitLib ==
    [ rcParams          |-> LibRc,      \* matplotlib.rcParams (seaborn shares it)
      savefig           |-> << >>,      \* matplotlib.pyplot.savefig
      gcf               |-> 0,          \* watermarks on pyplot's current figure
      templates_default |-> "plotly",   \* plotly.io.templates.default
      templates_sane    |-> NoTemplate, \* plotly.io.templates["sane_figs"]
      Figure_init       |-> << >>,      \* plotly.graph_objects.Figure.__init__
      themes_active     |-> "default",  \* altair.themes.active
      themes_sane       |-> "-",        \* the theme registered as "sane_figs"
      Chart_save        |-> << >>,      \* altair.Chart.save
      Chart_original_save |-> None ]    \* altair.Chart._original_save

\* The adapter instances as their constructors leave them.
InitAd ==
    [ matplotlib |-> [ original_rcparams |-> None,
                       watermark_config  |-> NoWatermark,
                       original_savefig  |-> None ],
      seaborn    |-> [ original_theme    |-> None,
                       original_context  |-> None,
                       watermark_config  |-> NoWatermark,
                       original_savefig  |-> None ],
      plotly     |-> [ original_template |-> None,
                       current_template  |-> None,
                       watermark_config  |-> NoWatermark,
                       original_figure_init |-> None ],
      altair     |-> [ original_theme    |-> None,
                       current_theme     |-> None,
                       base_theme_config |-> None,
                       watermark_config  |-> NoWatermark ] ]

\* The global configuration a library renders with.
LibConfig(l, name) ==
    CASE name \in {"matplotlib", "seaborn"} -> <<l.rcParams>>
      [] name = "plotly" ->
            <<l.templates_default,
              IF l.templates_default = "sane_figs" THEN l.templates_sane
                                                   ELSE NoTemplate>>
      [] name = "altair" ->
            <<l.themes_active,
              IF l.themes_active = "sane_figs" THEN l.themes_sane ELSE "-">>

\* The save/construct entry point an adapter intercepts.
EntryPoint(l, name) ==
    CASE name \in {"matplotlib", "seaborn"} -> l.savefig
      [] name = "plotly" -> l.Figure_init
      [] name = "altair" -> l.Chart_save

\* ------------------------------------------------------- MatplotlibAdapter
\* A world w is [lib |-> the library globals, ad |-> the adapter instances,
\* cyc |-> the adapters' cycle history].
\* A preset p is [name, colorway, watermark]: the Preset's identity (its name
\* stands for its fixed size, dpi and font fields) and its two mutable fields.

\* add_watermark: remember pyplot.savefig once, then install a wrapper around
\* the remembered function.
MplAddWatermark(w, config) ==
    LET a    == w.ad.matplotlib
        orig == IF a.original_savefig = None THEN Some(w.lib.savefig)
                                             ELSE a.original_savefig
    IN  [w EXCEPT !.ad.matplotlib.watermark_config = config,
                  !.ad.matplotlib.original_savefig = orig,
                  !.lib.savefig = <<"matplotlib">> \o orig[1]]

\* apply_colorway: the color cycle becomes the colorway's categorical list.
MplApplyColorway(w, colorway) ==
    [w EXCEPT !.lib.rcParams.cycle = colorway]

\* _configure_rcparams and _handle_version_specifics: the style keys are
\* overwritten from the preset; the color cycle is not touched.
MplConfigureRcparams(w, p) ==
    [w EXCEPT !.lib.rcParams.style = <<"matplotlib", p.name>>]

\* The snapshot apply_style takes: the current rcParams, on every call.
MplSnapshot(w) == Some(w.lib.rcParams)

MplApplyStyle(w, p) ==
    LET w1 == [w EXCEPT !.ad.matplotlib.original_rcparams = MplSnapshot(w)]
        w2 == MplConfigureRcparams(w1, p)
        w3 == IF p.colorway # NoColorway THEN MplApplyColorway(w2, p.colorway)
                                         ELSE w2
        w4 == IF p.watermark # NoWatermark THEN MplAddWatermark(w3, p.watermark)
                                           ELSE w3
    IN  [w |-> w4, exc |-> "none"]

\* What reset_style writes back into rcParams.
MplRestoredRc(w) ==
    IF w.ad.matplotlib.original_rcparams # None
    THEN w.ad.matplotlib.original_rcparams[1]
    ELSE w.lib.rcParams

\* A reset_style that exchanges the snapshot and the current rcParams.
MplResetStyleSwap(w) ==
    LET a  == w.ad.matplotlib
        w1 == [w EXCEPT !.lib.rcParams = MplRestoredRc(w),
                        !.ad.matplotlib.original_rcparams =
                            IF a.original_rcparams # None THEN Some(w.lib.rcParams)
                                                          ELSE None]
        w2 == IF a.original_savefig # None
              THEN [w1 EXCEPT !.lib.savefig = a.original_savefig[1],
                              !.ad.matplotlib.original_savefig = None]
              ELSE w1
    IN  [w2 EXCEPT !.ad.matplotlib.watermark_config = NoWatermark]

MplResetStyle(w) ==
    LET a  == w.ad.matplotlib
        w1 == [w EXCEPT !.lib.rcParams = MplRestoredRc(w)]
        w2 == IF a.original_savefig # None
              THEN [w1 EXCEPT !.lib.savefig = a.original_savefig[1],
                              !.ad.matplotlib.original_savefig = None]
              ELSE w1
    IN  [w2 EXCEPT !.ad.matplotlib.watermark_config = NoWatermark]

\* ---------------------------------------------------------- SeabornAdapter

SnsAddWatermark(w, config) ==
    LET a    == w.ad.seaborn
        orig == IF a.original_savefig = None THEN Some(w.lib.savefig)
                                             ELSE a.original_savefig
    IN  [w EXCEPT !.ad.seaborn.watermark_config = config,
                  !.ad.seaborn.original_savefig = orig,
                  !.lib.savefig = <<"seaborn">> \o orig[1]]

\* set_palette(colorway.categorical) writes matplotlib's color cycle.
SnsApplyColorway(w, colorway) ==
    [w EXCEPT !.lib.rcParams.cycle = colorway]

\* _save_original_settings: seaborn has no get_theme, so both branches store
\* the literals "darkgrid" and "notebook", whatever the current settings are.
SnsSaveOriginalSettings(w) ==
    [w EXCEPT !.ad.seaborn.original_theme = Some("darkgrid"),
              !.ad.seaborn.original_context = Some("notebook")]

\* _configure_theme: set_theme(style, context, rc) rewrites matplotlib's
\* rcParams, the color cycle included (set_theme's default palette).
SnsConfigureTheme(w, p) ==
    [w EXCEPT !.lib.rcParams = [style |-> <<"seaborn", p.name>>, cycle |-> "deep"]]

\* apply_style reads preset.title_config after the watermark step; Preset has
\* no such field (core/presets.py), so the read raises AttributeError.
SnsApplyStyle(w, p) ==
    LET w1 == SnsSaveOriginalSettings(w)
        w2 == SnsConfigureTheme(w1, p)
        w3 == IF p.colorway # NoColorway THEN SnsApplyColorway(w2, p.colorway)
                                         ELSE w2
        w4 == IF p.watermark # NoWatermark THEN SnsAddWatermark(w3, p.watermark)
                                           ELSE w3
    IN  [w |-> w4, exc |-> "AttributeError"]

SnsResetStyle(w) ==
    LET a  == w.ad.seaborn
        \* set_theme(style=original_theme), then set_context(original_context);
        \* set_palette(color_palette()) re-installs the cycle set_theme chose.
        w1 == IF a.original_theme # None
              THEN [w EXCEPT !.lib.rcParams =
                        [style |-> <<"seaborn", a.original_theme[1]>>,
                         cycle |-> "deep"]]
              ELSE w
        w2 == IF a.original_savefig # None
              THEN [w1 EXCEPT !.lib.savefig = a.original_savefig[1],
                              !.ad.seaborn.original_savefig = None]
              ELSE w1
    IN  [w2 EXCEPT !.ad.seaborn.watermark_config = NoWatermark]

\* ----------------------------------------------------------- PlotlyAdapter

PlyAddWatermark(w, config) ==
    LET a    == w.ad.plotly
        orig == IF a.original_figure_init = None THEN Some(w.lib.Figure_init)
                                                 ELSE a.original_figure_init
    IN  [w EXCEPT !.ad.plotly.watermark_config = config,
                  !.ad.plotly.original_figure_init = orig,
                  !.lib.Figure_init = <<"plotly">> \o orig[1]]

\* apply_colorway: the stored template (or, without one, the library's
\* "plotly" template) gets the colorway and is registered as "sane_figs".
PlyApplyColorway(w, colorway) ==
    LET a == w.ad.plotly
        t == IF a.current_template # None
             THEN [a.current_template[1] EXCEPT !.cycle = colorway]
             ELSE [preset |-> "plotly", cycle |-> colorway]
    IN  [w EXCEPT !.ad.plotly.current_template =
                        IF a.current_template # None THEN Some(t) ELSE None,
                  !.lib.templates_sane = t,
                  !.lib.templates_default = "sane_figs"]

PlySaveOriginalSettings(w) ==
    [w EXCEPT !.ad.plotly.original_template = Some(w.lib.templates_default)]

\* _configure_template: a new template with a fixed colorway, stored on the
\* adapter, registered as "sane_figs" and made the default.
PlyConfigureTemplate(w, p) ==
    LET t == [preset |-> p.name, cycle |-> "fixed"]
    IN  [w EXCEPT !.ad.plotly.current_template = Some(t),
                  !.lib.templates_sane = t,
                  !.lib.templates_default = "sane_figs"]

\* As for seaborn, the read of preset.title_config raises AttributeError.
PlyApplyStyle(w, p) ==
    LET w1 == PlySaveOriginalSettings(w)
        w2 == PlyConfigureTemplate(w1, p)
        w3 == IF p.colorway # NoColorway THEN PlyApplyColorway(w2, p.colorway)
                                         ELSE w2
        w4 == IF p.watermark # NoWatermark THEN PlyAddWatermark(w3, p.watermark)
                                           ELSE w3
    IN  [w |-> w4, exc |-> "AttributeError"]

PlyResetStyle(w) ==
    LET a  == w.ad.plotly
        w1 == IF a.original_template # None
              THEN [w EXCEPT !.lib.templates_default = a.original_template[1]]
              ELSE w
        w2 == IF a.original_figure_init # None
              THEN [w1 EXCEPT !.lib.Figure_init = a.original_figure_init[1],
                              !.ad.plotly.original_figure_init = None]
              ELSE w1
    IN  [w2 EXCEPT !.ad.plotly.current_template = None,
                   !.ad.plotly.watermark_config = NoWatermark]

\* ----------------------------------------------------------- AltairAdapter

\* add_watermark: the original Chart.save is kept on the class itself, as
\* alt.Chart._original_save, the first time only.
AltAddWatermark(w, config) ==
    LET orig == IF w.lib.Chart_original_save = None THEN Some(w.lib.Chart_save)
                                                    ELSE w.lib.Chart_original_save
    IN  [w EXCEPT !.ad.altair.watermark_config = config,
                  !.lib.Chart_original_save = orig,
                  !.lib.Chart_save = <<"altair">> \o orig[1]]

\* apply_colorway: with no base theme config (see AltConfigureTheme) the
\* fallback branch registers a theme holding only the colorway.
AltApplyColorway(w, colorway) ==
    [w EXCEPT !.lib.themes_sane = colorway,
              !.lib.themes_active = "sane_figs",
              !.ad.altair.current_theme = Some(colorway)]

AltSaveOriginalSettings(w) ==
    [w EXCEPT !.ad.altair.original_theme = Some(w.lib.themes_active)]

\* _configure_theme calls preset.get_display_dpi(), which Preset does not
\* have, before it stores or registers anything; the AttributeError is
\* swallowed by the method's own except clause.
AltConfigureTheme(w, p) == w

\* As for seaborn, the read of preset.title_config raises AttributeError.
AltApplyStyle(w, p) ==
    LET w1 == AltSaveOriginalSettings(w)
        w2 == AltConfigureTheme(w1, p)
        w3 == IF p.colorway # NoColorway THEN AltApplyColorway(w2, p.colorway)
                                         ELSE w2
        w4 == IF p.watermark # NoWatermark THEN AltAddWatermark(w3, p.watermark)
                                           ELSE w3
    IN  [w |-> w4, exc |-> "AttributeError"]

\* reset_style: the theme is re-enabled and the stored state cleared;
\* alt.Chart.save and alt.Chart._original_save are not assigned.
AltResetStyle(w) ==
    LET a  == w.ad.altair
        w1 == IF a.original_theme # None
              THEN [w EXCEPT !.lib.themes_active = a.original_theme[1]]
              ELSE w
    IN  [w1 EXCEPT !.ad.altair.current_theme = None,
                   !.ad.altair.watermark_config = NoWatermark]

\* ------------------------------------------------------------------ pyplot

\* pyplot.savefig(fname) as it is bound now.  Each wrapper on the entry
\* point, "savefig_with_watermark", takes the current figure, adds its
\* adapter's watermark to it if the adapter has a config at that moment,
\* and calls the function it wrapped; the original writes the figure as it
\* is then.
WatermarksAdded(w) ==
    Cardinality({i \in DOMAIN w.lib.savefig :
                    w.ad[w.lib.savefig[i]].watermark_config # NoWatermark})

pyplot_savefig(w) == [w EXCEPT !.lib.gcf = @ + WatermarksAdded(w)]

\* pyplot.figure(): a new current figure.
pyplot_figure(w) == [w EXCEPT !.lib.gcf = 0]

\* --------------------------------------------------- the adapter interface

apply_style(w, name, p) ==
    CASE name = "matplotlib" -> MplApplyStyle(w, p)
      [] name = "seaborn"    -> SnsApplyStyle(w, p)
      [] name = "plotly"     -> PlyApplyStyle(w, p)
      [] name = "altair"     -> AltApplyStyle(w, p)

reset_style(w, name) ==
    CASE name = "matplotlib" -> MplResetStyle(w)
      [] name = "seaborn"    -> SnsResetStyle(w)
      [] name = "plotly"     -> PlyResetStyle(w)
      [] name = "altair"     -> AltResetStyle(w)

add_watermark(w, name, config) ==
    CASE name = "matplotlib" -> MplAddWatermark(w, config)
      [] name = "seaborn"    -> SnsAddWatermark(w, config)
      [] name = "plotly"     -> PlyAddWatermark(w, config)
      [] name = "altair"     -> AltAddWatermark(w, config)

\* A partial map (a Python dict) is a function on the set of its keys.
EmptyMap == [k \in {} |-> None]

Put(m, k, v) == [x \in (DOMAIN m) \cup {k} |-> IF x = k THEN v ELSE m[x]]

Pop(m, k) == [x \in (DOMAIN m) \ {k} |-> m[x]]

\* ------------------------------------------------- the apply/reset cycle
\* The state machine the adapters are documented to follow:
\* uninitialized -> apply_style -> styled -> reset_style -> uninitialized.
\* cyc[name] records, for the current cycle, how many apply_style calls it
\* has seen (0, 1, or 2 for "two or more"), the library configuration before
\* the first of them, and the entry point before a watermark was installed.

NewCycle == [phase |-> "uninitialized", applies |-> 0, before |-> None, entry0 |-> None]

InitCyc == [n \in Libs |-> NewCycle]

NoteWatermark(c, w, name) ==
    IF c.entry0 = None THEN [c EXCEPT !.entry0 = Some(EntryPoint(w.lib, name))]
                       ELSE c

NoteApply(c, w, name, p) ==
    LET c1 == IF c.phase = "uninitialized"
              THEN [c EXCEPT !.phase = "styled", !.applies = 1,
                             !.before = Some(LibConfig(w.lib, name))]
              ELSE [c EXCEPT !.applies = 2]
    IN  IF p.watermark # NoWatermark THEN NoteWatermark(c1, w, name) ELSE c1

\* adapter.apply_style(preset), with the cycle history kept.
CallApplyStyle(w, name, p) ==
    LET r == apply_style(w, name, p)
    IN  [w   |-> [r.w EXCEPT !.cyc[name] = NoteApply(w.cyc[name], w, name, p)],
         exc |-> r.exc]

\* adapter.reset_style(), with the cycle history kept.
CallResetStyle(w, name) ==
    [reset_style(w, name) EXCEPT !.cyc[name] = NewCycle]

\* adapter.add_watermark(config), with the cycle history kept.
CallAddWatermark(w, name, config) ==
    [add_watermark(w, name, config) EXCEPT
        !.cyc[name] = NoteWatermark(w.cyc[name], w, name)]

World == [lib |-> lib, ad |-> ad, cyc |-> cyc]

SetWorld(w) ==
    /\ lib' = w.lib
    /\ ad' = w.ad
    /\ cyc' = w.cyc

\* No entry point carries more than MaxWrapDepth wrappers.
WithinDepth(w) ==
    /\ Len(w.lib.savefig) <= MaxWrapDepth
    /\ Len(w.lib.Figure_init) <= MaxWrapDepth
    /\ Len(w.lib.Chart_save) <= MaxWrapDepth

\* ------------------------------------------------------- DiscoveryService

\* constructed, probes, clears: how many adapter instances of a library
\* were constructed, how many times it was probed, and how many times the
\* caches were cleared, since the process started (history).
InitDiscovery ==
    [ cache |-> EmptyMap, adapter_cache |-> EmptyMap,
      constructed |-> [n \in Libs |-> 0], probes |-> [n \in Libs |-> 0],
      clears |-> 0 ]

\* get_library_info: ValueError for a name outside _LIBRARY_INFO; otherwise
\* the cached probe, or a new probe that is cached.
get_library_info(d, name) ==
    IF name \notin Libs
    THEN [d |-> d, available |-> FALSE, exc |-> "ValueError"]
    ELSE IF name \in DOMAIN d.cache
    THEN [d |-> d, available |-> d.cache[name], exc |-> "none"]
    ELSE [d |-> [d EXCEPT !.cache = Put(d.cache, name, name \in avail),
                          !.probes[name] = @ + 1],
          available |-> name \in avail, exc |-> "none"]

\* A get_adapter that never looks into _adapter_cache.
get_adapter_uncached(d, name) ==
    LET i == get_library_info(d, name)
    IN  IF i.exc # "none"
        THEN [d |-> d, adapter |-> None, exc |-> i.exc]
        ELSE IF ~i.available
        THEN [d |-> [i.d EXCEPT !.adapter_cache = Put(i.d.adapter_cache, name, None)],
              adapter |-> None, exc |-> "none"]
        ELSE [d |-> [i.d EXCEPT !.adapter_cache =
                           Put(i.d.adapter_cache, name, Some(name)),
                                !.constructed[name] = @ + 1],
              adapter |-> Some(name), exc |-> "none"]

\* get_adapter: the cached adapter (or cached None); otherwise the library is
\* probed, which raises for an unknown name, and the outcome is cached.
get_adapter(d, name) ==
    IF name \in DOMAIN d.adapter_cache
    THEN [d |-> d, adapter |-> d.adapter_cache[name], exc |-> "none"]
    ELSE LET i == get_library_info(d, name)
         IN  IF i.exc # "none"
             THEN [d |-> d, adapter |-> None, exc |-> i.exc]
             ELSE IF ~i.available
             THEN [d |-> [i.d EXCEPT !.adapter_cache = Put(i.d.adapter_cache, name, None)],
                   adapter |-> None, exc |-> "none"]
             ELSE [d |-> [i.d EXCEPT !.adapter_cache =
                                Put(i.d.adapter_cache, name, Some(name)),
                                     !.constructed[name] = @ + 1],
                   adapter |-> Some(name), exc |-> "none"]

\* clear_cache().
clear_cache(d) ==
    [d EXCEPT !.cache = EmptyMap, !.adapter_cache = EmptyMap, !.clears = @ + 1]

\* "adapter = adapter_class()": where the service went from d0 to d1 by
\* constructing an adapter, the instance it hands out from then on is a new
\* one, as its constructor leaves it and at the start of its cycle.
Instances(w, d0, d1) ==
    [w EXCEPT !.ad = [n \in Libs |-> IF d1.constructed[n] > d0.constructed[n]
                                     THEN InitAd[n] ELSE w.ad[n]],
              !.cyc = [n \in Libs |-> IF d1.constructed[n] > d0.constructed[n]
                                      THEN NewCycle ELSE w.cyc[n]]]

\* The loop "for lib_name in libraries: adapter = get_adapter(lib_name); if
\* adapter is not None: adapters.append(adapter)", stopped by an exception.
RECURSIVE GetAdapters(_, _, _)
GetAdapters(d, names, found) ==
    IF names = << >>
    THEN [d |-> d, adapters |-> found, exc |-> "none"]
    ELSE LET r == get_adapter(d, Head(names))
         IN  IF r.exc # "none"
             THEN [d |-> r.d, adapters |-> found, exc |-> r.exc]
             ELSE GetAdapters(r.d, Tail(names), found \o r.adapter)

get_all_available_adapters(d) == GetAdapters(d, LIBRARY_INFO, << >>)

\* The adapters an apply or a block selects: all available ones for
\* libraries=None, the named ones otherwise.
SelectAdapters(d, libraries) ==
    IF libraries = None THEN get_all_available_adapters(d)
                        ELSE GetAdapters(d, libraries[1], << >>)

\* ------------------------------------------------------------ StyleRegistry

InitRegistry ==
    [ active_presets    |-> EmptyMap,
      active_colorways  |-> EmptyMap,
      active_watermarks |-> EmptyMap,
      original_settings |-> EmptyMap ]

\* save_original_settings(name, {}): the adapters never fill the base class's
\* _original_settings, so the value saved is always the empty dict.
save_original_settings(r, name) ==
    [r EXCEPT !.original_settings = Put(r.original_settings, name, "{}")]

\* The three register_* calls that follow adapter.apply_style(preset).
RegisterApplied(r, name, p) ==
    LET r1 == [r EXCEPT !.active_presets = Put(r.active_presets, name, p.name)]
        r2 == IF p.colorway # NoColorway
              THEN [r1 EXCEPT !.active_colorways =
                                Put(r1.active_colorways, name, p.colorway)]
              ELSE r1
    IN  IF p.watermark # NoWatermark
        THEN [r2 EXCEPT !.active_watermarks =
                            Put(r2.active_watermarks, name, p.watermark)]
        ELSE r2

clear_adapter(r, name) ==
    [ active_presets    |-> Pop(r.active_presets, name),
      active_colorways  |-> Pop(r.active_colorways, name),
      active_watermarks |-> Pop(r.active_watermarks, name),
      original_settings |-> Pop(r.original_settings, name) ]

\* list_active_adapters: the keys of _active_presets.  Only an adapter whose
\* apply_style returned is ever registered; the keys are listed in
\* _LIBRARY_INFO order.
list_active_adapters(r) ==
    SelectSeq(LIBRARY_INFO, LAMBDA n : n \in DOMAIN r.active_presets)

\* ---------------------------------------------------------- preset registry

\* The colorway each built-in preset is constructed with (core/presets.py).
PresetDef ==
    [ article      |-> NoColorway,
      presentation |-> NoColorway,
      ulaval       |-> "ulaval",
      modeleau     |-> "modeleau",
      marimo       |-> "marimo",
      latex        |-> NoColorway ]

BuiltinPresets == {"article", "presentation", "ulaval", "modeleau", "marimo", "latex"}

\* The built-in presets' figure_size, in thousandths of an inch as every
\* figure size is, their dpi, and their title font size in points.
PresetFigure ==
    [ article      |-> [figure_size |-> <<3500, 2625>>, dpi |-> 300, title |-> 9],
      presentation |-> [figure_size |-> <<13330, 7500>>, dpi |-> 150, title |-> 28],
      ulaval       |-> [figure_size |-> <<6500, 4000>>, dpi |-> 300, title |-> 11],
      modeleau     |-> [figure_size |-> <<6500, 4000>>, dpi |-> 300, title |-> 11],
      marimo       |-> [figure_size |-> <<6500, 4000>>, dpi |-> 100, title |-> 14],
      latex        |-> [figure_size |-> <<5500, 3500>>, dpi |-> 300, title |-> 11] ]

NewPreset(name) ==
    [ colorway |-> PresetDef[name], watermark |-> NoWatermark,
      figure_size |-> PresetFigure[name].figure_size,
      dpi |-> PresetFigure[name].dpi,
      font_size |-> [title |-> PresetFigure[name].title] ]

InitPresets == [n \in BuiltinPresets |-> NewPreset(n)]

\* The names unregister_preset refuses to remove.
ProtectedPresets == {"article", "presentation"}

\* _COLORWAY_REGISTRY's keys.
COLORWAY_REGISTRY ==
    {"default", "nature", "vibrant", "pastel", "colorblind-safe", "ulaval",
     "modeleau", "marimo"}

\* The colorway an apply call resolves: [colorway, exc].  cw is the caller's
\* argument: [kind |-> "none"], [kind |-> "name", name |-> n] for a string,
\* [kind |-> "object", name |-> n] for a Colorway object.
ResolveColorway(ps, mode, cw) ==
    CASE cw.kind = "none" ->
            [colorway |-> IF ps[mode].colorway # NoColorway
                          THEN ps[mode].colorway
                          ELSE IF mode = "presentation" THEN "vibrant"
                                                        ELSE "default",
             exc |-> "none"]
      [] cw.kind = "name" ->
            IF cw.name \in COLORWAY_REGISTRY
            THEN [colorway |-> cw.name, exc |-> "none"]
            ELSE [colorway |-> NoColorway, exc |-> "ValueError"]
      [] cw.kind = "object" -> [colorway |-> cw.name, exc |-> "none"]

\* "preset.colorway = ...; if watermark is not None: preset.watermark = ...":
\* the registry's own Preset object is assigned to.
UpdatePreset(ps, mode, colorway, watermark) ==
    [ps EXCEPT ![mode].colorway = colorway,
               ![mode].watermark = IF watermark # NoWatermark THEN watermark
                                                              ELSE @]

PresetArg(ps, mode) ==
    [name |-> mode, colorway |-> ps[mode].colorway, watermark |-> ps[mode].watermark]

\* ------------------------------------------------------------ orchestration
\* The program state the orchestration functions work on, as one record.

State ==
    [ w |-> World, presets |-> presets, registry |-> registry,
      discovery |-> discovery, gb |-> global_before ]

SetState(s) ==
    /\ SetWorld(s.w)
    /\ presets' = s.presets
    /\ registry' = s.registry
    /\ discovery' = s.discovery
    /\ global_before' = s.gb

\* The body of apply_global_setup's loop "for adapter in adapters", stopped
\* by an exception out of adapter.apply_style.
RECURSIVE StyleEach(_, _, _, _)
StyleEach(s, adapters, p, styled) ==
    IF adapters = << >>
    THEN [s |-> s, exc |-> "none", styled |-> styled]
    ELSE LET name == Head(adapters)
             r1   == save_original_settings(s.registry, name)
             a    == CallApplyStyle(s.w, name, p)
             s1   == [s EXCEPT !.registry = r1, !.w = a.w]
         IN  IF a.exc # "none"
             THEN [s |-> s1, exc |-> a.exc, styled |-> styled]
             ELSE StyleEach(
                    [s1 EXCEPT !.registry = RegisterApplied(r1, name, p),
                               !.gb = Put(s.gb, name, LibConfig(s.w.lib, name))],
                    Tail(adapters), p, styled \cup {name})

\* apply_global_setup(mode, libraries, colorway, watermark).  The result
\* carries the exception that reaches the caller ("none" if it returns), the
\* colorway that was resolved and the adapters that were styled and recorded.
apply_global_setup(s, mode, libraries, cw, wm) ==
    IF mode \notin DOMAIN s.presets
    THEN [s |-> s, exc |-> "ValueError", colorway |-> NoColorway, styled |-> {}]
    ELSE LET c == ResolveColorway(s.presets, mode, cw)
         IN  IF c.exc # "none"
             THEN [s |-> s, exc |-> c.exc, colorway |-> NoColorway, styled |-> {}]
             ELSE LET ps  == UpdatePreset(s.presets, mode, c.colorway, wm)
                      sel == SelectAdapters(s.discovery, libraries)
                      s1  == [s EXCEPT !.presets = ps, !.discovery = sel.d,
                                       !.w = Instances(s.w, s.discovery, sel.d)]
                  IN  IF sel.exc # "none"
                      THEN [s |-> s1, exc |-> sel.exc, colorway |-> c.colorway,
                            styled |-> {}]
                      ELSE LET r == StyleEach(s1, sel.adapters, PresetArg(ps, mode), {})
                           IN  [s |-> r.s, exc |-> r.exc, colorway |-> c.colorway,
                                styled |-> r.styled]

\* The loop of reset_global_setup and of __exit__: "adapter = get_adapter(
\* name); if adapter is not None: adapter.reset_style(); clear_adapter(name)".
RECURSIVE ResetEach(_, _, _)
ResetEach(s, names, done) ==
    IF names = << >>
    THEN [s |-> s, exc |-> "none", reset |-> done]
    ELSE LET g == get_adapter(s.discovery, Head(names))
         IN  IF g.exc # "none"
             THEN [s |-> s, exc |-> g.exc, reset |-> done]
             ELSE IF g.adapter = None
             THEN ResetEach([s EXCEPT !.discovery = g.d], Tail(names), done)
             ELSE ResetEach(
                    [s EXCEPT !.discovery = g.d,
                              !.w = CallResetStyle(
                                        Instances(s.w, s.discovery, g.d),
                                        Head(names)),
                              !.registry = clear_adapter(s.registry, Head(names))],
                    Tail(names), done \cup {Head(names)})

\* The names reset_global_setup walks.
ResetNames(s, libraries) ==
    IF libraries = None THEN list_active_adapters(s.registry) ELSE libraries[1]

reset_global_setup(s, libraries) ==
    LET r == ResetEach(s, ResetNames(s, libraries), {})
    IN  [r EXCEPT !.s.gb = IF libraries = None /\ r.exc = "none" THEN EmptyMap
                           ELSE [n \in (DOMAIN s.gb) \ r.reset |-> s.gb[n]]]

\* The loop of PublicationStyleContext.__enter__: the preset is looked up and
\* resolved again for every adapter.
RECURSIVE EnterEach(_, _, _, _, _)
EnterEach(s, adapters, mode, cw, wm) ==
    IF adapters = << >>
    THEN [s |-> s, exc |-> "none"]
    ELSE LET name == Head(adapters)
             s1   == [s EXCEPT !.registry = save_original_settings(s.registry, name)]
         IN  IF mode \notin DOMAIN s.presets
             THEN [s |-> s1, exc |-> "ValueError"]
             ELSE LET c == ResolveColorway(s.presets, mode, cw)
                  IN  IF c.exc # "none"
                      THEN [s |-> s1, exc |-> c.exc]
                      ELSE LET ps == UpdatePreset(s.presets, mode, c.colorway, wm)
                               p  == PresetArg(ps, mode)
                               a  == CallApplyStyle(s1.w, name, p)
                               s2 == [s1 EXCEPT !.presets = ps, !.w = a.w]
                           IN  IF a.exc # "none"
                               THEN [s |-> s2, exc |-> a.exc]
                               ELSE EnterEach(
                                      [s2 EXCEPT !.registry =
                                            RegisterApplied(s1.registry, name, p)],
                                      Tail(adapters), mode, cw, wm)

\* PublicationStyleContext.__enter__: [s, exc, active_libraries].
context_enter(s, mode, libraries, cw, wm) ==
    LET sel == SelectAdapters(s.discovery, libraries)
        s1  == [s EXCEPT !.discovery = sel.d,
                         !.w = Instances(s.w, s.discovery, sel.d)]
    IN  IF sel.exc # "none"
        THEN [s |-> s1, exc |-> sel.exc, active_libraries |-> << >>]
        ELSE LET r == EnterEach(s1, sel.adapters, mode, cw, wm)
             IN  [s |-> r.s, exc |-> r.exc, active_libraries |-> sel.adapters]

\* An __exit__ that resets only when the block's body did not raise.
context_exit_unless_raised(s, active_libraries, raised) ==
    IF raised THEN [s |-> s, exc |-> "none", reset |-> {}]
              ELSE ResetEach(s, active_libraries, {})

\* PublicationStyleContext.__exit__(exc_type, exc_val, exc_tb): raised says
\* whether the block's body raised; the exception arguments are not read.
context_exit(s, active_libraries, raised) == ResetEach(s, active_libraries, {})

\* register_preset(preset): ValueError if the name is taken.  name is
\* preset.name, p the fields of the Preset that are stored.
register_preset(ps, name, p) ==
    IF name \in DOMAIN ps
    THEN [presets |-> ps, exc |-> "ValueError: already exists"]
    ELSE [presets |-> Put(ps, name, p), exc |-> "none"]

\* An unregister_preset that removes any registered name.
unregister_preset_unprotected(ps, name) ==
    IF name \notin DOMAIN ps
    THEN [presets |-> ps, exc |-> "ValueError: not found"]
    ELSE [presets |-> Pop(ps, name), exc |-> "none"]

\* unregister_preset(name): ValueError if the name is not registered or is
\* one of the protected names.
unregister_preset(ps, name) ==
    IF name \notin DOMAIN ps
    THEN [presets |-> ps, exc |-> "ValueError: not found"]
    ELSE IF name \in ProtectedPresets
    THEN [presets |-> ps, exc |-> "ValueError: Cannot unregister built-in"]
    ELSE [presets |-> Pop(ps, name), exc |-> "none"]

\* get_preset(mode): [preset, exc].
get_preset(ps, mode) ==
    IF mode \notin DOMAIN ps
    THEN [preset |-> None, exc |-> "ValueError: Unknown preset"]
    ELSE [preset |-> Some(ps[mode]), exc |-> "none"]

\* -------------------------------------------------------- colorway registry

\* A color is the tuple of the characters of its string.
Blue == <<"#", "1", "f", "7", "7", "b", "4">>

\* The Colorway dataclass.
Colorway(name, description, categorical, sequential, diverging, qualitative) ==
    [ name |-> name, description |-> description, categorical |-> categorical,
      sequential |-> sequential, diverging |-> diverging,
      qualitative |-> qualitative ]

\* A built-in colorway, its four color lists cut down to one entry each.
BuiltinColorway(name) ==
    Colorway(name, "built-in", <<Blue>>, <<Blue>>, <<Blue>>, <<Blue>>)

InitColorways == [n \in COLORWAY_REGISTRY |-> BuiltinColorway(n)]

\* get_colorway(name): [colorway, exc].
get_colorway(cs, name) ==
    IF name \notin DOMAIN cs
    THEN [colorway |-> None, exc |-> "ValueError: Unknown colorway"]
    ELSE [colorway |-> Some(cs[name]), exc |-> "none"]

\* A register_colorway that stores the colorway under a taken name, too.
register_colorway_overwrite(cs, c) ==
    [colorways |-> [n \in DOMAIN cs \cup {c.name} |->
                        IF n = c.name THEN c ELSE cs[n]],
     exc |-> IF c.name \in DOMAIN cs THEN "ValueError: already exists"
                                      ELSE "none"]

\* register_colorway(colorway): ValueError if the name is taken.
register_colorway(cs, c) ==
    IF c.name \in DOMAIN cs
    THEN [colorways |-> cs, exc |-> "ValueError: already exists"]
    ELSE [colorways |-> Put(cs, c.name, c), exc |-> "none"]

\* The names unregister_colorway refuses to remove.
ProtectedColorways ==
    {"default", "nature", "vibrant", "pastel", "colorblind-safe", "ulaval",
     "modeleau", "marimo"}

\* unregister_colorway(name).
unregister_colorway(cs, name) ==
    IF name \notin DOMAIN cs
    THEN [colorways |-> cs, exc |-> "ValueError: not found"]
    ELSE IF name \in ProtectedColorways
    THEN [colorways |-> cs, exc |-> "ValueError: Cannot unregister built-in"]
    ELSE [colorways |-> Pop(cs, name), exc |-> "none"]

\* ---------------------------------------------------------------- validation
\* Numbers that are fractions in the program (opacity, scale, margin, line
\* width, marker size) are in hundredths here: 1.0 is 100.  A
\* ValidationError is [field, severity], the field a path such as
\* <<"colorway", "categorical", "0">>.  A function that may raise returns
\* [exc, detail, errors, value]: the exception raised ("none" if it
\* returns), the field a YAMLParseError names, the error list of a
\* YAMLValidationError, and the object returned.

Return(value) ==
    [exc |-> "none", detail |-> "", errors |-> << >>, value |-> Some(value)]

Raise(exc, detail, errors) ==
    [exc |-> exc, detail |-> detail, errors |-> errors, value |-> None]

\* "v = r; ...": what follows a call that returned, or its exception.
Bind(r, Rest(_)) == IF r.exc # "none" THEN r ELSE Rest(r.value[1])

\* "errors = validate(value); if errors: raise YAMLValidationError(errors)".
Checked(value, errors) ==
    IF errors # << >> THEN Raise("YAMLValidationError", "", errors)
                      ELSE Return(value)

HexDigits ==
    {"0", "1", "2", "3", "4", "5", "6", "7", "8", "9",
     "a", "b", "c", "d", "e", "f", "A", "B", "C", "D", "E", "F"}

\* What int(hex_part, 16) accepts besides digits: blanks around, a sign, a
\* 0x prefix, single underscores between digits and after the prefix.
RECURSIVE StripLeft(_)
StripLeft(h) == IF h # << >> /\ Head(h) = " " THEN StripLeft(Tail(h)) ELSE h

RECURSIVE StripRight(_)
StripRight(h) ==
    IF h # << >> /\ h[Len(h)] = " " THEN StripRight(SubSeq(h, 1, Len(h) - 1))
                                    ELSE h

Unsigned(t) == IF t # << >> /\ Head(t) \in {"+", "-"} THEN Tail(t) ELSE t

Unprefixed(u) ==
    IF Len(u) >= 2 /\ u[1] = "0" /\ u[2] \in {"x", "X"}
    THEN SubSeq(u, IF Len(u) >= 3 /\ u[3] = "_" THEN 4 ELSE 3, Len(u))
    ELSE u

DigitGroups(d) ==
    /\ d # << >>
    /\ \A i \in DOMAIN d : d[i] \in HexDigits \cup {"_"}
    /\ d[1] # "_"
    /\ d[Len(d)] # "_"
    /\ \A i \in 1..(Len(d) - 1) : ~(d[i] = "_" /\ d[i + 1] = "_")

\* Whether int(hex_part, 16) returns.
IntBase16Parses(hex_part) ==
    DigitGroups(Unprefixed(Unsigned(StripRight(StripLeft(hex_part)))))

\* _is_valid_hex_color(color).
is_valid_hex_color(color) ==
    /\ color # << >>
    /\ Head(color) = "#"
    /\ Len(Tail(color)) \in {6, 8}
    /\ IntBase16Parses(Tail(color))

Error(field) == <<[field |-> field, severity |-> "error"]>>

ErrorsAt(color_type, bad) ==
    [k \in 1..Len(bad) |->
        [field |-> <<color_type, ToString(bad[k] - 1)>>, severity |-> "error"]]

\* The errors validate_colorway reports for one of the four color lists.
ColorErrors(color_type, colors) ==
    ErrorsAt(color_type, SelectSeq([i \in 1..Len(colors) |-> i],
                                   LAMBDA i : ~is_valid_hex_color(colors[i])))

\* validate_colorway(colorway): the list of errors.
validate_colorway(c) ==
    (IF c.name = "" THEN Error(<<"name">>) ELSE << >>)
    \o (IF c.description = "" THEN Error(<<"description">>) ELSE << >>)
    \o ColorErrors("categorical", c.categorical)
    \o ColorErrors("sequential", c.sequential)
    \o ColorErrors("diverging", c.diverging)
    \o ColorErrors("qualitative", c.qualitative)

valid_positions == {"top-left", "top-right", "bottom-left", "bottom-right", "center"}

\* A WatermarkConfig that takes an image or a text, never both.
WatermarkConfigExclusive(image_path, text, position, opacity, scale, margin, font_size, font_color) ==
    IF \/ (image_path = None) = (text = None)
       \/ position \notin valid_positions
       \/ ~(0 <= opacity /\ opacity <= 100)
       \/ ~(0 <= scale /\ scale <= 100)
       \/ Len(margin) # 2
       \/ ~(/\ 0 <= margin[1] /\ margin[1] <= 100
            /\ 0 <= margin[2] /\ margin[2] <= 100)
    THEN Raise("ValueError", "", << >>)
    ELSE Return([ image_path |-> image_path, text |-> text,
                  position |-> position, opacity |-> opacity,
                  scale |-> scale, margin |-> margin,
                  font_size |-> font_size, font_color |-> font_color ])

\* WatermarkConfig(...) with __post_init__.  image_path and text are
\* optional.
WatermarkConfig(image_path, text, position, opacity, scale, margin, font_size, font_color) ==
    IF \/ image_path = None /\ text = None
       \/ position \notin valid_positions
       \/ ~(0 <= opacity /\ opacity <= 100)
       \/ ~(0 <= scale /\ scale <= 100)
       \/ Len(margin) # 2
       \/ ~(/\ 0 <= margin[1] /\ margin[1] <= 100
            /\ 0 <= margin[2] /\ margin[2] <= 100)
    THEN Raise("ValueError", "", << >>)
    ELSE Return([ image_path |-> image_path, text |-> text,
                  position |-> position, opacity |-> opacity,
                  scale |-> scale, margin |-> margin,
                  font_size |-> font_size, font_color |-> font_color ])

\* A get_watermark_position that measures y from the top edge.
get_watermark_position_from_top(position, figure_width, figure_height, watermark_width, watermark_height, margin_x, margin_y) ==
    IF position \notin valid_positions
    THEN Raise("ValueError", "Unknown position", << >>)
    ELSE Return(
        CASE position = "top-left" ->
                <<figure_width * margin_x, figure_height * margin_y>>
          [] position = "top-right" ->
                <<100 * (figure_width - watermark_width) - figure_width * margin_x,
                  figure_height * margin_y>>
          [] position = "bottom-left" ->
                <<figure_width * margin_x,
                  100 * (figure_height - watermark_height) - figure_height * margin_y>>
          [] position = "bottom-right" ->
                <<100 * (figure_width - watermark_width) - figure_width * margin_x,
                  100 * (figure_height - watermark_height) - figure_height * margin_y>>
          [] position = "center" ->
                <<50 * (figure_width - watermark_width),
                  50 * (figure_height - watermark_height)>>)

\* watermarks.get_watermark_position(...).  The margins are fractions in
\* hundredths, so "figure_width * margin_x" is in hundredths of a unit, and
\* so are the coordinates returned.
get_watermark_position(position, figure_width, figure_height, watermark_width, watermark_height, margin_x, margin_y) ==
    IF position = "top-left"
    THEN Return(<<figure_width * margin_x,
                  100 * (figure_height - watermark_height) - figure_height * margin_y>>)
    ELSE IF position = "top-right"
    THEN Return(<<100 * (figure_width - watermark_width) - figure_width * margin_x,
                  100 * (figure_height - watermark_height) - figure_height * margin_y>>)
    ELSE IF position = "bottom-left"
    THEN Return(<<figure_width * margin_x, figure_height * margin_y>>)
    ELSE IF position = "bottom-right"
    THEN Return(<<100 * (figure_width - watermark_width) - figure_width * margin_x,
                  figure_height * margin_y>>)
    ELSE IF position = "center"
    THEN Return(<<50 * (figure_width - watermark_width),
                  50 * (figure_height - watermark_height)>>)
    ELSE Raise("ValueError", "Unknown position", << >>)

\* dict.get(key, default); a dict is a function on its keys.
Get(data, key, default) == IF key \in DOMAIN data THEN data[key] ELSE default

\* The font sizes an adapter configures for a preset: the preset's sizes in
\* points, "preset.font_size.get(key, default)", times a scale.  Pixel
\* sizes are counted in 72nds of a pixel, so that points * (n / 72.0) is
\* points * n.
ScaledFontSizes(preset, scale) ==
    [ title  |-> Get(preset.font_size.value, "title", 14) * scale,
      label  |-> Get(preset.font_size.value, "label", 12) * scale,
      tick   |-> Get(preset.font_size.value, "tick", 10) * scale,
      legend |-> Get(preset.font_size.value, "legend", 10) * scale ]

\* MatplotlibAdapter._configure_rcparams(preset): the sizes in points.
MplConfigureRcparamsFonts(preset) ==
    Return([unit |-> "pt", sizes |-> ScaledFontSizes(preset, 1)])

\* PlotlyAdapter._configure_template(preset): "dpi_scale = 96 / 72.0".
PlyConfigureTemplateFonts(preset) ==
    Return([unit |-> "px/72", sizes |-> ScaledFontSizes(preset, 96)])

\* preset.get_display_dpi(): Preset has no such attribute.
get_display_dpi(preset) == Raise("AttributeError", "get_display_dpi", << >>)

\* AltairAdapter._configure_theme(preset): "dpi_scale = preset.dpi / 72.0",
\* then the read of the display dpi, then the theme config.
AltConfigureThemeFonts(preset) ==
    Bind(get_display_dpi(preset), LAMBDA screen_dpi :
         Return([unit |-> "px/72", sizes |-> ScaledFontSizes(preset, preset.dpi)]))

\* What an adapter draws on a figure for a watermark config: a text mark, an
\* image mark, or nothing.  readable: the image file exists and can be
\* decoded.
TextMark(config) == <<[kind |-> "text", text |-> config.text[1]]>>

ImageMark(config, readable) ==
    IF readable THEN <<[kind |-> "image", image_path |-> config.image_path[1]]>>
    ELSE << >>

\* MatplotlibAdapter._add_watermark_to_figure(fig, config).
MplAddWatermarkToFigure(config, readable) ==
    IF config.text # None THEN TextMark(config)
    ELSE IF config.image_path # None THEN ImageMark(config, readable)
    ELSE << >>

\* SeabornAdapter._add_watermark_to_figure(fig, config).
SnsAddWatermarkToFigure(config, readable) ==
    IF config.text # None THEN TextMark(config)
    ELSE IF config.image_path # None THEN ImageMark(config, readable)
    ELSE << >>

\* PlotlyAdapter._add_watermark_to_figure(fig, config).
PlyAddWatermarkToFigure(config, readable) ==
    IF config.text # None THEN TextMark(config)
    ELSE IF config.image_path # None THEN ImageMark(config, readable)
    ELSE << >>

\* AltairAdapter._add_watermark_to_chart_internal(chart, config).
AltAddWatermarkToChart(config, readable) ==
    IF config.text # None THEN TextMark(config)
    ELSE IF config.image_path # None THEN ImageMark(config, readable)
    ELSE << >>

\* validate_watermark(watermark): the list of errors.
validate_watermark(w) ==
    (IF w.image_path = None /\ w.text = None THEN Error(<<"watermark">>)
                                              ELSE << >>)
    \o (IF w.position \notin valid_positions THEN Error(<<"position">>)
                                              ELSE << >>)
    \o (IF ~(0 <= w.opacity /\ w.opacity <= 100) THEN Error(<<"opacity">>)
                                                  ELSE << >>)
    \o (IF ~(0 <= w.scale /\ w.scale <= 100) THEN Error(<<"scale">>) ELSE << >>)
    \o (IF Len(w.margin) # 2 THEN Error(<<"margin">>)
        ELSE (IF ~(0 <= w.margin[1] /\ w.margin[1] <= 100)
              THEN Error(<<"margin", "x">>) ELSE << >>)
             \o (IF ~(0 <= w.margin[2] /\ w.margin[2] <= 100)
                 THEN Error(<<"margin", "y">>) ELSE << >>))
    \o (IF w.font_size <= 0 THEN Error(<<"font_size">>) ELSE << >>)
    \o (IF ~is_valid_hex_color(w.font_color) THEN Error(<<"font_color">>)
                                              ELSE << >>)

\* The errors of a nested object, the parent's field name put before.
Prefixed(parent, errors) ==
    [k \in 1..Len(errors) |->
        [field |-> <<parent>> \o errors[k].field, severity |-> errors[k].severity]]

valid_font_keys == {"title", "label", "legend", "tick", "annotation"}

\* The loop of validate_preset over font_size.items(), keys as a sequence.
RECURSIVE FontSizeErrors(_, _)
FontSizeErrors(font_size, keys) ==
    IF keys = << >> THEN << >>
    ELSE (IF Head(keys) \notin valid_font_keys
          THEN <<[field |-> <<"font_size", Head(keys)>>, severity |-> "warning"]>>
          ELSE << >>)
         \o (IF font_size[Head(keys)] <= 0 THEN Error(<<"font_size", Head(keys)>>)
                                           ELSE << >>)
         \o FontSizeErrors(font_size, Tail(keys))

\* validate_preset(preset): the list of errors.  font_size is
\* [keys, value]: the dict's keys in their order, and the value of each.
validate_preset(p) ==
    (IF p.name = "" THEN Error(<<"name">>) ELSE << >>)
    \o (IF p.mode = "" THEN Error(<<"mode">>) ELSE << >>)
    \o (IF Len(p.figure_size) # 2 THEN Error(<<"figure_size">>)
        ELSE (IF p.figure_size[1] <= 0 THEN Error(<<"figure_size", "width">>)
                                       ELSE << >>)
             \o (IF p.figure_size[2] <= 0 THEN Error(<<"figure_size", "height">>)
                                          ELSE << >>))
    \o (IF p.dpi <= 0 THEN Error(<<"dpi">>) ELSE << >>)
    \o (IF p.font_family = "" THEN Error(<<"font_family">>) ELSE << >>)
    \o FontSizeErrors(p.font_size.value, p.font_size.keys)
    \o (IF p.line_width <= 0 THEN Error(<<"line_width">>) ELSE << >>)
    \o (IF p.marker_size <= 0 THEN Error(<<"marker_size">>) ELSE << >>)
    \o (IF p.colorway # None
        THEN Prefixed("colorway", validate_colorway(p.colorway[1])) ELSE << >>)
    \o (IF p.watermark # None
        THEN Prefixed("watermark", validate_watermark(p.watermark[1])) ELSE << >>)

\* --------------------------------------------------------------- YAML parser
\* What yaml.safe_load returns is modelled as it is: a dict is a function on
\* its keys.  A value that may be a string or a dict is [kind, value].  A
\* path is the sequence of its components, "/" first if it is absolute.

\* base_path / image_path, as pathlib joins them.
JoinPath(base_path, path) ==
    IF path # << >> /\ Head(path) = "/" THEN path ELSE base_path \o path

\* _parse_colorway_from_dict(data).
parse_colorway_from_dict(data) ==
    IF "name" \notin DOMAIN data THEN Raise("YAMLParseError", "name", << >>)
    ELSE IF "description" \notin DOMAIN data
    THEN Raise("YAMLParseError", "description", << >>)
    ELSE Bind(Return(Colorway(data.name, data.description,
                              Get(Get(data, "colors", EmptyMap), "categorical", << >>),
                              Get(Get(data, "colors", EmptyMap), "sequential", << >>),
                              Get(Get(data, "colors", EmptyMap), "diverging", << >>),
                              Get(Get(data, "colors", EmptyMap), "qualitative", << >>))),
              LAMBDA colorway : Checked(colorway, validate_colorway(colorway)))

\* A _parse_watermark_from_dict that takes a missing text for an empty one.
parse_watermark_text_optional(data, base_path) ==
    IF Get(data, "type", "text") = "image" /\ "image_path" \notin DOMAIN data
    THEN Raise("YAMLParseError", "image_path", << >>)
    ELSE IF Get(data, "type", "text") \notin {"image", "text"}
    THEN Raise("YAMLParseError", "type", << >>)
    ELSE Bind(WatermarkConfig(
                  IF Get(data, "type", "text") = "image"
                  THEN Some(JoinPath(base_path, data.image_path)) ELSE None,
                  IF Get(data, "type", "text") = "text"
                  THEN Some(Get(data, "text", "")) ELSE None,
                  Get(data, "position", "bottom-right"),
                  Get(data, "opacity", 30), Get(data, "scale", 10),
                  Get(data, "margin", <<2, 2>>), Get(data, "font_size", 12),
                  Get(data, "font_color", <<"#", "0", "0", "0", "0", "0", "0">>)),
              LAMBDA watermark : Checked(watermark, validate_watermark(watermark)))

\* _parse_watermark_from_dict(data, base_path).
parse_watermark_from_dict(data, base_path) ==
    IF Get(data, "type", "text") = "image" /\ "image_path" \notin DOMAIN data
    THEN Raise("YAMLParseError", "image_path", << >>)
    ELSE IF Get(data, "type", "text") = "text" /\ "text" \notin DOMAIN data
    THEN Raise("YAMLParseError", "text", << >>)
    ELSE IF Get(data, "type", "text") \notin {"image", "text"}
    THEN Raise("YAMLParseError", "type", << >>)
    ELSE Bind(WatermarkConfig(
                  IF Get(data, "type", "text") = "image"
                  THEN Some(JoinPath(base_path, data.image_path)) ELSE None,
                  IF Get(data, "type", "text") = "text" THEN Some(data.text)
                                                        ELSE None,
                  Get(data, "position", "bottom-right"),
                  Get(data, "opacity", 30), Get(data, "scale", 10),
                  Get(data, "margin", <<2, 2>>), Get(data, "font_size", 12),
                  Get(data, "font_color", <<"#", "0", "0", "0", "0", "0", "0">>)),
              LAMBDA watermark : Checked(watermark, validate_watermark(watermark)))

\* "colorway = get_colorway(name)" in _parse_preset_from_dict.
Referenced(g) ==
    IF g.exc # "none" THEN Raise("ValueError", "Unknown colorway", << >>)
                      ELSE Return(g.colorway)

\* The colorway part of _parse_preset_from_dict: the value is the optional
\* colorway.  cs is the colorway registry.
ParseColorwayField(cs, data) ==
    IF "colorway" \notin DOMAIN data THEN Return(None)
    ELSE IF data.colorway.kind = "str"
    THEN Referenced(get_colorway(cs, data.colorway.value))
    ELSE IF /\ "name" \in DOMAIN data.colorway.value
            /\ "description" \notin DOMAIN data.colorway.value
            /\ "colors" \notin DOMAIN data.colorway.value
    THEN Referenced(get_colorway(cs, data.colorway.value.name))
    ELSE Bind(parse_colorway_from_dict(data.colorway.value),
              LAMBDA colorway : Return(Some(colorway)))

\* The watermark part of _parse_preset_from_dict.
ParseWatermarkField(data, base_path) ==
    IF "watermark" \notin DOMAIN data THEN Return(None)
    ELSE Bind(parse_watermark_from_dict(data.watermark, base_path),
              LAMBDA watermark : Return(Some(watermark)))

\* The Preset(...) that _parse_preset_from_dict constructs.
Preset(data, colorway, watermark) ==
    [ name |-> data.name, mode |-> data.mode,
      figure_size |-> data.figure.size,
      dpi |-> Get(data.figure, "dpi", 300),
      font_family |-> Get(Get(data, "typography", EmptyMap), "font_family",
                          "sans-serif"),
      font_size |-> Get(Get(data, "typography", EmptyMap), "font_sizes",
                        [keys |-> << >>, value |-> EmptyMap]),
      line_width |-> Get(Get(data, "elements", EmptyMap), "line_width", 150),
      marker_size |-> Get(Get(data, "elements", EmptyMap), "marker_size", 600),
      colorway |-> colorway,
      watermark |-> watermark ]

\* _parse_preset_from_dict(data, base_path) up to the Preset it constructs.
ParsePresetFields(cs, data, base_path) ==
    IF "name" \notin DOMAIN data THEN Raise("YAMLParseError", "name", << >>)
    ELSE IF "mode" \notin DOMAIN data
    THEN Raise("YAMLParseError", "mode", << >>)
    ELSE IF "size" \notin DOMAIN Get(data, "figure", EmptyMap)
    THEN Raise("YAMLParseError", "figure.size", << >>)
    ELSE IF Len(data.figure.size) # 2
    THEN Raise("YAMLParseError", "figure.size length", << >>)
    ELSE Bind(ParseColorwayField(cs, data), LAMBDA colorway :
         Bind(ParseWatermarkField(data, base_path), LAMBDA watermark :
         Return(Preset(data, colorway, watermark))))

\* A _parse_preset_from_dict that returns the preset whatever
\* validate_preset reports.
parse_preset_unvalidated(cs, data, base_path) ==
    ParsePresetFields(cs, data, base_path)

\* _parse_preset_from_dict(data, base_path).
parse_preset_from_dict(cs, data, base_path) ==
    Bind(ParsePresetFields(cs, data, base_path),
         LAMBDA preset : Checked(preset, validate_preset(preset)))

\* -------------------------------------------------------------- YAML loaders
\* A file is [kind |-> "missing"], [kind |-> "empty"] (safe_load returns
\* None) or [kind |-> "doc", dir |-> its directory, data |-> what safe_load
\* returns].

\* The loop of _parse_presets_from_dict, stopped by the first exception.
RECURSIVE ParseEachPreset(_, _, _, _)
ParseEachPreset(cs, presets_data, base_path, parsed) ==
    IF presets_data = << >> THEN Return(parsed)
    ELSE Bind(parse_preset_from_dict(cs, Head(presets_data), base_path),
              LAMBDA preset : ParseEachPreset(cs, Tail(presets_data), base_path,
                                              Append(parsed, preset)))

parse_presets_from_dict(cs, data, base_path) ==
    ParseEachPreset(cs, data.presets, base_path, << >>)

\* The loop of _parse_colorways_from_dict.
RECURSIVE ParseEachColorway(_, _)
ParseEachColorway(colorways_data, parsed) ==
    IF colorways_data = << >> THEN Return(parsed)
    ELSE Bind(parse_colorway_from_dict(Head(colorways_data)),
              LAMBDA colorway : ParseEachColorway(Tail(colorways_data),
                                                  Append(parsed, colorway)))

parse_colorways_from_dict(data) == ParseEachColorway(data.colorways, << >>)

\* What the four load_*_from_yaml functions do before they look at the data.
OpenFile(file) ==
    IF file.kind = "missing" THEN Raise("FileNotFoundError", "", << >>)
    ELSE IF file.kind = "empty" THEN Raise("YAMLParseError", "empty", << >>)
    ELSE Return(file.data)

\* "if len(items) == 0: raise YAMLParseError(...); return items[0]".
First(items) ==
    IF Len(items) = 0 THEN Raise("YAMLParseError", "Nothing found", << >>)
                      ELSE Return(items[1])

\* yaml_parser.load_presets_from_yaml(file_path): the value is the list.
load_presets_from_yaml(cs, file) ==
    Bind(OpenFile(file), LAMBDA data :
        IF "presets" \in DOMAIN data
        THEN parse_presets_from_dict(cs, data, file.dir)
        ELSE parse_presets_from_dict(cs, [presets |-> <<data>>], file.dir))

\* yaml_parser.load_preset_from_yaml(file_path): the value is the preset.
load_preset_from_yaml(cs, file) ==
    Bind(load_presets_from_yaml(cs, file), LAMBDA presets_ : First(presets_))

\* yaml_parser.load_colorways_from_yaml(file_path).
load_colorways_from_yaml(file) ==
    Bind(OpenFile(file), LAMBDA data :
        IF "colorways" \in DOMAIN data
        THEN parse_colorways_from_dict(data)
        ELSE parse_colorways_from_dict([colorways |-> <<data>>]))

\* yaml_parser.load_colorway_from_yaml(file_path).
load_colorway_from_yaml(file) ==
    Bind(load_colorways_from_yaml(file), LAMBDA colorways_ : First(colorways_))

\* "for preset in presets: register_preset(preset)", stopped by the first
\* exception; with skip, the loop of load_config, which passes over a
\* ValueError.
RECURSIVE RegisterEachPreset(_, _, _)
RegisterEachPreset(ps, items, skip) ==
    IF items = << >> THEN [presets |-> ps, exc |-> "none"]
    ELSE LET r == register_preset(ps, Head(items).name, Head(items))
         IN  IF r.exc # "none" /\ ~skip THEN r
             ELSE RegisterEachPreset(r.presets, Tail(items), skip)

\* The loop of load_config over the colorways.
RECURSIVE RegisterEachColorway(_, _)
RegisterEachColorway(cs, items) ==
    IF items = << >> THEN cs
    ELSE RegisterEachColorway(register_colorway(cs, Head(items)).colorways,
                              Tail(items))

\* What load_preset_from_file and load_presets_from_file give back:
\* [presets, exc, detail, value].  loaded is what the parser returned, r
\* what registering it returned.
Failed(ps, loaded) ==
    [presets |-> ps, exc |-> loaded.exc, detail |-> loaded.detail, value |-> None]

Registered(r, value) ==
    [presets |-> r.presets, exc |-> r.exc, detail |-> "",
     value |-> IF r.exc = "none" THEN Some(value) ELSE None]

\* "register_preset(preset); return preset" and "for preset in presets:
\* register_preset(preset); return presets".
RegisterOne(ps, loaded) ==
    IF loaded.exc # "none" THEN Failed(ps, loaded)
    ELSE Registered(register_preset(ps, loaded.value[1].name, loaded.value[1]),
                    loaded.value[1])

RegisterAll(ps, loaded) ==
    IF loaded.exc # "none" THEN Failed(ps, loaded)
    ELSE Registered(RegisterEachPreset(ps, loaded.value[1], FALSE),
                    loaded.value[1])

\* presets.load_preset_from_file(file_path).
load_preset_from_file(ps, cs, file) ==
    RegisterOne(ps, load_preset_from_yaml(cs, file))

\* presets.load_presets_from_file(file_path).
load_presets_from_file(ps, cs, file) ==
    RegisterAll(ps, load_presets_from_yaml(cs, file))

\* A discovery that lists the locations from the user's home to the
\* project's root.
discover_files_home_first(locations) ==
    SelectSeq([i \in 1..Len(locations) |-> locations[Len(locations) + 1 - i]],
              LAMBDA f : f.kind # "missing")

\* discover_preset_files and discover_colorway_files: of the four standard
\* locations, in their order, those where a file exists.
discover_files(locations) == SelectSeq(locations, LAMBDA f : f.kind # "missing")

\* "try: all.extend(load(file)) except Exception: continue".
Extend(r) == IF r.exc # "none" THEN << >> ELSE r.value[1]

\* load_all_discovered_presets: a file that does not load is passed over.
RECURSIVE LoadAllPresets(_, _)
LoadAllPresets(cs, preset_files) ==
    IF preset_files = << >> THEN << >>
    ELSE Extend(load_presets_from_yaml(cs, Head(preset_files)))
         \o LoadAllPresets(cs, Tail(preset_files))

load_all_discovered_presets(cs, locations) ==
    LoadAllPresets(cs, discover_files(locations))

\* load_all_discovered_colorways.
RECURSIVE LoadAllColorways(_)
LoadAllColorways(colorway_files) ==
    IF colorway_files = << >> THEN << >>
    ELSE Extend(load_colorways_from_yaml(Head(colorway_files)))
         \o LoadAllColorways(Tail(colorway_files))

load_all_discovered_colorways(locations) ==
    LoadAllColorways(discover_files(locations))

\* presets.load_config(): [presets, colorways].  fs is the file system:
\* the files at the four preset locations and at the four colorway
\* locations.
load_config(ps, cs, fs) ==
    [ presets |-> RegisterEachPreset(
                      ps, load_all_discovered_presets(cs, fs.presets), TRUE).presets,
      colorways |-> RegisterEachColorway(
                      cs, load_all_discovered_colorways(fs.colorways)) ]

\* -------------------------------------------------------------------- inputs

\* The sets of importable libraries that are explored: for the orchestration,
\* matplotlib alone, or plotly with altair; for the adapters driven directly,
\* matplotlib with seaborn (which needs it), or plotly with altair; for the
\* resets, matplotlib with seaborn, plotly alone, or altair alone.
AvailChoices == {{"matplotlib"}, {"plotly", "altair"}}

AdapterAvailChoices == {{"matplotlib", "seaborn"}, {"plotly", "altair"}}

ResetAvailChoices == {{"matplotlib", "seaborn"}, {"plotly"}, {"altair"}}

\* The apply and publication_style calls that are explored: every available
\* library with the defaults; one named library with a colorway name and a
\* watermark; presentation mode; a list with "bokeh", which is not a known
\* library.
Calls ==
    { [mode |-> "article", libraries |-> None, cw |-> [kind |-> "none"],
       wm |-> NoWatermark],
      [mode |-> "article", libraries |-> Some(<<"matplotlib">>),
       cw |-> [kind |-> "name", name |-> "nature"], wm |-> "draft"],
      [mode |-> "presentation", libraries |-> Some(<<"matplotlib">>),
       cw |-> [kind |-> "none"], wm |-> NoWatermark],
      [mode |-> "article", libraries |-> Some(<<"matplotlib", "bokeh">>),
       cw |-> [kind |-> "none"], wm |-> NoWatermark] }

\* The libraries arguments given to reset.
ResetArgs == {None, Some(<<"matplotlib">>)}

\* The preset names given to register_preset and unregister_preset.
PresetNames == {"presentation", "latex"}

\* The presets handed to an adapter directly.
PresetArgs ==
    { [name |-> "article", colorway |-> NoColorway, watermark |-> NoWatermark],
      [name |-> "presentation", colorway |-> "vibrant", watermark |-> "draft"] }

\* Two more colors, and two strings that are not colors.
Red == <<"#", "F", "F", "0", "0", "0", "0">>

Green == <<"#", "0", "0", "F", "F", "0", "0", "8", "0">>

\* The Colorway objects given to register_colorway: a new one, and one
\* that takes a built-in name.
ColorwayArgs ==
    { Colorway("lab", "my lab colors", <<Red, Green>>, <<Red>>, <<Red>>, <<Red>>),
      Colorway("default", "my default", <<Red>>, <<Red>>, <<Red>>, <<Red>>) }

\* The names given to get_colorway and unregister_colorway.
ColorwayNames == {"lab", "default"}

NotHex == <<"r", "e", "d">>

BadDigit == <<"#", "G", "G", "0", "0", "0", "0">>

\* The directory of the YAML file that is parsed.
BasePath == <<"/", "proj">>

\* The colorway dicts of the YAML documents: a valid one, one with two
\* malformed colors, one without description.
LabColorwayDict ==
    [name |-> "lab", description |-> "lab colors",
     colors |-> [categorical |-> <<Red, Green>>]]

ColorwayDicts ==
    { LabColorwayDict,
      [name |-> "lab", description |-> "lab colors",
       colors |-> [categorical |-> <<Red, NotHex>>, sequential |-> <<BadDigit>>]],
      [name |-> "lab", colors |-> [categorical |-> <<Red>>]] }

\* The preset dicts of the YAML documents, key by key: the key absent, or
\* present with a good or a bad value.
PresetDicts ==
    { name @@ mode @@ figure @@ elements @@ typography @@ colorway @@ watermark :
        name \in {EmptyMap, "name" :> "lab", "name" :> ""},
        mode \in {EmptyMap, "mode" :> "article"},
        figure \in {EmptyMap} \cup
            {"figure" :> f : f \in { [size |-> <<6000, 4000>>],
                                     [size |-> <<6000, 4000>>, dpi |-> -1],
                                     [size |-> <<0, 4000>>, dpi |-> -1],
                                     [size |-> <<6000>>],
                                     [dpi |-> 300] }},
        elements \in {EmptyMap, "elements" :> [line_width |-> -100]},
        typography \in {EmptyMap} \cup
            {"typography" :> [font_sizes |-> f] :
                f \in { [keys |-> <<"title">>, value |-> [title |-> 12]],
                        [keys |-> <<"heading", "title">>,
                         value |-> [heading |-> 12, title |-> -1]] }},
        colorway \in {EmptyMap} \cup
            {"colorway" :> c : c \in
                { [kind |-> "str", value |-> "nature"],
                  [kind |-> "str", value |-> "nope"],
                  [kind |-> "dict", value |-> [name |-> "nature"]] } \cup
                { [kind |-> "dict", value |-> d] : d \in ColorwayDicts }},
        watermark \in {EmptyMap} \cup
            {"watermark" :> w : w \in
                { [type |-> "text", text |-> "draft"],
                  [text |-> "draft", opacity |-> 150],
                  [text |-> "draft", font_color |-> NotHex],
                  [text |-> "draft", font_color |-> NotHex, font_size |-> 0],
                  [type |-> "text"],
                  [type |-> "image"],
                  [type |-> "image", image_path |-> <<"logo.png">>, text |-> "draft"],
                  [type |-> "logo", text |-> "draft"] }} }

\* The preset dicts of the files that are loaded: "lab" at a dpi, "thesis"
\* with a negative dpi, "thesis" with the colorway "lab" (which is there
\* only if someone registered it), a dict without mode.
LabDict(dpi) ==
    [name |-> "lab", mode |-> "article", figure |-> [size |-> <<6000, 4000>>, dpi |-> dpi]]

BadThesisDict ==
    [name |-> "thesis", mode |-> "article", figure |-> [size |-> <<6000, 4000>>, dpi |-> -1]]

ThesisDict ==
    [name |-> "thesis", mode |-> "article", figure |-> [size |-> <<6000, 4000>>],
     colorway |-> [kind |-> "str", value |-> "lab"]]

NoModeDict == [name |-> "draft", figure |-> [size |-> <<6000, 4000>>]]

Missing == [kind |-> "missing"]

File(data) == [kind |-> "doc", dir |-> BasePath, data |-> data]

\* The files given to load_preset_from_file and load_presets_from_file.
PresetFiles ==
    { Missing, [kind |-> "empty"], File(LabDict(300)), File(BadThesisDict),
      File(NoModeDict), File([presets |-> << >>]),
      File([presets |-> <<LabDict(150), BadThesisDict>>]),
      File([presets |-> <<ThesisDict, LabDict(150)>>]),
      File([presets |-> <<LabDict(300), LabDict(150)>>]) }

\* The files given to load_colorway_from_yaml and load_colorways_from_yaml.
ColorwayFiles ==
    {Missing} \cup {File(d) : d \in ColorwayDicts}
    \cup {File([colorways |-> <<LabColorwayDict, d>>]) : d \in ColorwayDicts}

\* The file systems load_config finds: what is at each of the four preset
\* locations (the project's root, its .sane_figs directory, the user's
\* configuration directory, the user's home), and at the first colorway
\* location.
FileSystems ==
    { [presets |-> <<f1, f2, f3, File(LabDict(600))>>,
       colorways |-> <<c1, Missing, Missing, Missing>>] :
        f1 \in {Missing, File(LabDict(300)),
                File([presets |-> <<LabDict(150), BadThesisDict>>])},
        f2 \in {Missing, File(LabDict(150))},
        f3 \in {Missing, File([presets |-> <<ThesisDict>>])},
        c1 \in {Missing, File([colorways |-> <<LabColorwayDict>>])} }

\* Arguments of WatermarkConfig: fractions in hundredths.
WatermarkArgs ==
    [ image_path : {None, Some(<<"/", "proj", "logo.png">>)},
      text       : {None, Some("draft")},
      position   : {"bottom-right", "center", "middle"},
      opacity    : {-1, 0, 30, 100, 150},
      scale      : {0, 10, 101},
      margin     : {<<2, 2>>, <<0, 100>>, <<2>>, <<2, 2, 2>>, <<150, 50>>,
                    <<50, -1>>},
      font_size  : {12},
      font_color : {<<"#", "0", "0", "0", "0", "0", "0">>} ]

\* Arguments of get_watermark_position: sizes in whole units, margins in
\* hundredths.
PositionArgs ==
    [ position : valid_positions \cup {"middle"},
      W : {100, 640}, H : {100, 480}, w : {10, 64}, h : {10, 33},
      mx : {0, 2, 50}, my : {2, 10} ]

\* Preset objects that differ in dpi and in the font sizes they give.
PresetObjects ==
    { [ name |-> "lab", mode |-> "article", figure_size |-> <<6000, 4000>>,
        dpi |-> dpi, font_family |-> "sans-serif", font_size |-> font_size,
        line_width |-> 150, marker_size |-> 600, colorway |-> None,
        watermark |-> None ] :
        dpi \in {72, 96, 150, 300},
        font_size \in { [keys |-> << >>, value |-> EmptyMap],
                        [keys |-> <<"title">>, value |-> [title |-> 18]],
                        [keys |-> <<"title", "label", "tick", "legend">>,
                         value |-> [title |-> 16, label |-> 14, tick |-> 12,
                                    legend |-> 11]] } }

\* The names the discovery service is asked about; "bokeh" is not in
\* _LIBRARY_INFO.
LibraryNames == {"matplotlib", "plotly", "bokeh"}

\* The names get_preset and unregister_preset are given where presets are
\* loaded.
LoadedPresetNames == {"presentation", "lab"}

\* ---------------------------------------------------------------------- Init

\* The process after "import sane_figs": nothing styled, nothing probed.
FreshProgram ==
    /\ lib = InitLib
    /\ ad = InitAd
    /\ cyc = InitCyc
    /\ presets = InitPresets
    /\ colorways = InitColorways
    /\ registry = InitRegistry
    /\ discovery = InitDiscovery
    /\ global_before = EmptyMap
    /\ contexts = << >>

Fresh == FreshProgram /\ last = [op |-> "init"]

Init == avail \in AvailChoices /\ Fresh

InitAdapters == avail \in AdapterAvailChoices /\ Fresh

InitReset == avail \in ResetAvailChoices /\ Fresh

\* ------------------------------------------------------------------- actions

\* apply_global_setup with the module's discovery service and style
\* registry.  What it did before an exception stays done.
Apply(mode, libraries, cw, wm) ==
    \E r \in {apply_global_setup(State, mode, libraries, cw, wm)} :
        /\ WithinDepth(r.s.w)
        /\ SetState(r.s)
        /\ last' = [op |-> "apply", mode |-> mode, libraries |-> libraries,
                    cw |-> cw, wm |-> wm, exc |-> r.exc, colorway |-> r.colorway,
                    styled |-> r.styled]
        /\ UNCHANGED <<colorways, avail, contexts>>

\* reset_global_setup.  again: the call before this one was the same call.
Reset(libraries) ==
    \E r \in {reset_global_setup(State, libraries)} :
        /\ SetState(r.s)
        /\ last' = [op |-> "reset", libraries |-> libraries, exc |-> r.exc,
                    again |-> (last.op = "reset" /\ last.libraries = libraries)]
        /\ UNCHANGED <<colorways, avail, contexts>>

\* Entering a publication_style block: __enter__; the block is open only if
\* __enter__ returns.  entered (history): the libraries' configuration
\* when the block was entered.
Enter(mode, libraries, cw, wm) ==
    \E r \in {context_enter(State, mode, libraries, cw, wm)} :
        /\ Len(contexts) < MaxNesting
        /\ WithinDepth(r.s.w)
        /\ SetState(r.s)
        /\ contexts' = IF r.exc = "none"
                       THEN <<[active_libraries |-> r.active_libraries,
                               entered |-> [n \in avail |-> LibConfig(lib, n)]]>>
                            \o contexts
                       ELSE contexts
        /\ last' = [op |-> "enter", libraries |-> libraries, exc |-> r.exc]
        /\ UNCHANGED <<colorways, avail>>

\* Leaving the innermost open block, normally or by an exception raised in
\* its body: __exit__ runs either way.
Exit(raised) ==
    /\ contexts # << >>
    /\ \E r \in {context_exit(State, Head(contexts).active_libraries, raised)} :
           /\ SetState(r.s)
           /\ last' = [op |-> "exit", raised |-> raised, exc |-> r.exc,
                       active_libraries |-> Head(contexts).active_libraries,
                       reset |-> r.reset]
    /\ contexts' = Tail(contexts)
    /\ UNCHANGED <<colorways, avail>>

\* register_preset(Preset(name=name, ...)).
RegisterPreset(name) ==
    LET r == register_preset(presets, name, NewPreset(name))
    IN  /\ presets' = r.presets
        /\ last' = [op |-> "register_preset", name |-> name, exc |-> r.exc]
        /\ UNCHANGED <<colorways, avail, lib, ad, cyc, registry, discovery, global_before,
                       contexts>>

\* unregister_preset(name).
UnregisterPreset(name) ==
    LET r == unregister_preset(presets, name)
    IN  /\ presets' = r.presets
        /\ last' = [op |-> "unregister_preset", name |-> name, exc |-> r.exc]
        /\ UNCHANGED <<colorways, avail, lib, ad, cyc, registry, discovery, global_before,
                       contexts>>

\* adapter.apply_style(preset) called on an adapter directly.
AdapterApplyStyle(name, p) ==
    \E r \in {CallApplyStyle(World, name, p)} :
        /\ name \in avail
        /\ WithinDepth(r.w)
        /\ SetWorld(r.w)
        /\ last' = [op |-> "apply_style", lib |-> name, exc |-> r.exc]
        /\ UNCHANGED <<colorways, avail, presets, registry, discovery, global_before, contexts>>

\* adapter.reset_style() called on an adapter directly.  again: the call
\* before this one was the same call.
AdapterResetStyle(name) ==
    /\ name \in avail
    /\ \E w \in {CallResetStyle(World, name)} : SetWorld(w)
    /\ last' = [op |-> "reset_style", lib |-> name, exc |-> "none",
                again |-> (last.op = "reset_style" /\ last.lib = name)]
    /\ UNCHANGED <<colorways, avail, presets, registry, discovery, global_before, contexts>>

\* adapter.add_watermark(config) called on an adapter directly.
AdapterAddWatermark(name, config) ==
    \E w \in {CallAddWatermark(World, name, config)} :
        /\ name \in avail
        /\ WithinDepth(w)
        /\ SetWorld(w)
        /\ last' = [op |-> "add_watermark", lib |-> name, exc |-> "none"]
        /\ UNCHANGED <<colorways, avail, presets, registry, discovery, global_before, contexts>>

\* The user's code saves pyplot's current figure.  active: an adapter had a
\* watermark config; again: the figure had been saved with a watermark
\* before; written: the watermarks on the figure that was written.
Savefig ==
    /\ \E w \in {pyplot_savefig(World)} :
        /\ w.lib.gcf <= MaxMarks
        /\ SetWorld(w)
        /\ last' = [op |-> "savefig",
                    active |-> \E name \in {"matplotlib", "seaborn"} :
                                   ad[name].watermark_config # NoWatermark,
                    wrappers |-> lib.savefig,
                    again |-> lib.gcf > 0,
                    written |-> w.lib.gcf]
    /\ UNCHANGED <<colorways, avail, presets, registry, discovery, global_before,
                   contexts>>

\* The user's code opens a new figure.
NewFigure ==
    /\ lib.gcf # 0
    /\ SetWorld(pyplot_figure(World))
    /\ last' = [op |-> "figure"]
    /\ UNCHANGED <<colorways, avail, presets, registry, discovery, global_before,
                   contexts>>

\* The user's own code changes a library's configuration.
UserConfigure(name) ==
    /\ name \in avail
    /\ lib' = CASE name = "matplotlib" -> [lib EXCEPT !.rcParams = UserRc]
                [] name = "plotly"     -> [lib EXCEPT !.templates_default = "user"]
                [] name = "altair"     -> [lib EXCEPT !.themes_active = "user"]
    /\ lib' # lib
    /\ last' = [op |-> "user", lib |-> name]
    /\ UNCHANGED <<colorways, avail, ad, cyc, presets, registry, discovery, global_before,
                   contexts>>

\* The registries, and the variables nothing here touches.
Styling == <<avail, lib, ad, cyc, registry, discovery, global_before, contexts>>

\* get_preset(name).
GetPreset(name) ==
    /\ last' = [op |-> "get_preset", name |-> name,
                exc |-> get_preset(presets, name).exc,
                value |-> get_preset(presets, name).preset]
    /\ UNCHANGED <<Styling, presets, colorways>>

\* get_colorway(name).
GetColorway(name) ==
    /\ last' = [op |-> "get_colorway", name |-> name,
                exc |-> get_colorway(colorways, name).exc,
                value |-> get_colorway(colorways, name).colorway]
    /\ UNCHANGED <<Styling, presets, colorways>>

\* register_colorway(colorway).
RegisterColorway(c) ==
    \E r \in {register_colorway(colorways, c)} :
        /\ colorways' = r.colorways
        /\ last' = [op |-> "register_colorway", name |-> c.name, exc |-> r.exc]
        /\ UNCHANGED <<Styling, presets>>

\* unregister_colorway(name).
UnregisterColorway(name) ==
    \E r \in {unregister_colorway(colorways, name)} :
        /\ colorways' = r.colorways
        /\ last' = [op |-> "unregister_colorway", name |-> name, exc |-> r.exc]
        /\ UNCHANGED <<Styling, presets>>

\* _parse_preset_from_dict(data, base_path) on its own, for the dict that
\* was drawn.
ParsePreset ==
    /\ last.op = "input"
    /\ last.kind = "preset dict"
    /\ last' = [op |-> "parse_preset", data |-> last.data,
                r |-> parse_preset_from_dict(colorways, last.data, BasePath)]
    /\ UNCHANGED <<Styling, presets, colorways>>

\* WatermarkConfig(**args) on its own, for the arguments that were drawn.
ConstructWatermark ==
    /\ last.op = "input"
    /\ last.kind = "watermark args"
    /\ last' = [op |-> "WatermarkConfig", data |-> last.data,
                r |-> WatermarkConfig(last.data.image_path, last.data.text,
                                      last.data.position, last.data.opacity,
                                      last.data.scale, last.data.margin,
                                      last.data.font_size, last.data.font_color)]
    /\ UNCHANGED <<Styling, presets, colorways>>

\* A figure is saved through the wrapper that adapter name installed for
\* the watermark config just constructed: the wrapper hands the stored
\* config to the adapter's drawing method.
SaveWithWatermark(name, readable) ==
    /\ last.op = "WatermarkConfig"
    /\ last.r.exc = "none"
    /\ \E config \in {last.r.value[1]} :
         last' = [op |-> "save_with_watermark", adapter |-> name,
                  config |-> config, readable |-> readable,
                  drawn |-> CASE name = "matplotlib" ->
                                     MplAddWatermarkToFigure(config, readable)
                              [] name = "seaborn" ->
                                     SnsAddWatermarkToFigure(config, readable)
                              [] name = "plotly" ->
                                     PlyAddWatermarkToFigure(config, readable)
                              [] name = "altair" ->
                                     AltAddWatermarkToChart(config, readable)]
    /\ UNCHANGED <<Styling, presets, colorways>>

\* Adapter name configures its library for the preset that was drawn.
\* fonts: the font sizes the library is left with from this call; plotly
\* and altair swallow an exception of the configuration and configure
\* nothing.
ConfigureFonts(name) ==
    /\ last.op = "input"
    /\ last.kind = "preset"
    /\ \E r \in {CASE name = "matplotlib" -> MplConfigureRcparamsFonts(last.data)
                    [] name = "plotly" -> PlyConfigureTemplateFonts(last.data)
                    [] name = "altair" -> AltConfigureThemeFonts(last.data)} :
         last' = [op |-> "configure_fonts", adapter |-> name,
                  preset |-> last.data,
                  fonts |-> IF r.exc = "none" THEN Some(r.value[1]) ELSE None]
    /\ UNCHANGED <<Styling, presets, colorways>>

\* What the discovery actions leave alone.  The state of the adapter
\* instances is not their subject.
Undiscovered ==
    <<avail, lib, ad, cyc, presets, colorways, registry, global_before, contexts>>

\* What the discovery service never reaches, even through its adapters.
NoAdapter == <<avail, presets, colorways, registry, global_before, contexts>>

\* _discovery_service.get_adapter(library_name).  instance: the number, in
\* the order of construction, of the instance of that library that was
\* returned.
GetAdapter(name) ==
    /\ \A n \in Libs : discovery.constructed[n] <= MaxClears + 1
    /\ \E r \in {get_adapter(discovery, name)} :
        /\ discovery' = r.d
        /\ last' = [op |-> "get_adapter", name |-> name, exc |-> r.exc,
                    adapter |-> r.adapter,
                    cached |-> name \in DOMAIN discovery.adapter_cache,
                    instance |-> IF r.adapter = None THEN 0
                                 ELSE r.d.constructed[name]]
        /\ SetWorld(Instances(World, discovery, r.d))
    /\ UNCHANGED NoAdapter

\* _discovery_service.get_library_info(library_name).
GetLibraryInfo(name) ==
    /\ \E r \in {get_library_info(discovery, name)} :
        /\ discovery' = r.d
        /\ last' = [op |-> "get_library_info", name |-> name, exc |-> r.exc,
                    available |-> r.available]
    /\ UNCHANGED Undiscovered

\* _discovery_service.clear_cache().
ClearCache ==
    /\ discovery.clears < MaxClears
    /\ discovery' = clear_cache(discovery)
    /\ last' = [op |-> "clear_cache"]
    /\ UNCHANGED Undiscovered

\* get_watermark_position(**args) on its own, for the arguments drawn.
GetWatermarkPosition ==
    /\ last.op = "input"
    /\ last.kind = "position args"
    /\ last' = [op |-> "get_watermark_position", data |-> last.data,
                r |-> get_watermark_position(
                          last.data.position, last.data.W, last.data.H,
                          last.data.w, last.data.h, last.data.mx, last.data.my)]
    /\ UNCHANGED <<Styling, presets, colorways>>

\* sane_figs.load_preset_from_file(file_path).  returned: what the caller
\* gets back.
LoadPresetFromFile(file) ==
    \E r \in {load_preset_from_file(presets, colorways, file)} :
        /\ presets' = r.presets
        /\ last' = [op |-> "load_preset_from_file", file |-> file,
                    exc |-> r.exc, detail |-> r.detail, kind |-> "preset",
                    returned |-> r.value]
        /\ UNCHANGED <<Styling, colorways>>

\* sane_figs.load_presets_from_file(file_path).
LoadPresetsFromFile(file) ==
    \E r \in {load_presets_from_file(presets, colorways, file)} :
        /\ presets' = r.presets
        /\ last' = [op |-> "load_presets_from_file", file |-> file,
                    exc |-> r.exc, detail |-> r.detail, kind |-> "preset",
                    returned |-> IF r.value = None THEN << >> ELSE r.value[1]]
        /\ UNCHANGED <<Styling, colorways>>

\* sane_figs.load_colorway_from_yaml(file_path): it returns what the
\* parser's function of the same name returns.
LoadColorwayFromYaml(file) ==
    \E r \in {load_colorway_from_yaml(file)} :
        /\ last' = [op |-> "load_colorway_from_yaml", file |-> file,
                    exc |-> r.exc, detail |-> r.detail, kind |-> "colorway",
                    returned |-> r.value]
        /\ UNCHANGED <<Styling, presets, colorways>>

\* sane_figs.load_colorways_from_yaml(file_path).
LoadColorwaysFromYaml(file) ==
    \E r \in {load_colorways_from_yaml(file)} :
        /\ last' = [op |-> "load_colorways_from_yaml", file |-> file,
                    exc |-> r.exc, detail |-> r.detail, kind |-> "colorway",
                    returned |-> IF r.value = None THEN << >> ELSE r.value[1]]
        /\ UNCHANGED <<Styling, presets, colorways>>

\* sane_figs.load_config() in a process that finds the file system fs.
LoadConfig(fs) ==
    \E r \in {load_config(presets, colorways, fs)} :
        /\ presets' = r.presets
        /\ colorways' = r.colorways
        /\ last' = [op |-> "load_config", fs |-> fs, exc |-> "none"]
        /\ UNCHANGED Styling

\* ------------------------------------------------------------ specifications

\* The adapters driven directly.
NextAdapters ==
    \/ \E name \in Libs, p \in PresetArgs : AdapterApplyStyle(name, p)
    \/ \E name \in Libs : AdapterResetStyle(name)
    \/ \E name \in Libs : AdapterAddWatermark(name, "draft")
    \/ \E name \in Libs \ {"seaborn"} : UserConfigure(name)

SpecAdapters == InitAdapters /\ [][NextAdapters]_vars

\* Resets, global and direct, of what global applies styled and the user
\* changed.
NextReset ==
    \/ \E c \in Calls : Apply(c.mode, c.libraries, c.cw, c.wm)
    \/ \E libraries \in ResetArgs : Reset(libraries)
    \/ \E name \in Libs : AdapterResetStyle(name)
    \/ \E name \in Libs \ {"seaborn"} : UserConfigure(name)

SpecReset == InitReset /\ [][NextReset]_vars

\* The orchestration: global apply and reset, publication_style blocks and
\* the preset registry.
Next ==
    \/ \E c \in Calls : Apply(c.mode, c.libraries, c.cw, c.wm)
    \/ \E libraries \in ResetArgs : Reset(libraries)
    \/ \E c \in Calls : Enter(c.mode, c.libraries, c.cw, c.wm)
    \/ \E raised \in BOOLEAN : Exit(raised)
    \/ \E name \in PresetNames : RegisterPreset(name)
    \/ \E name \in PresetNames : UnregisterPreset(name)

Spec == Init /\ [][Next]_vars

\* The two registries and the YAML loaders that fill them.
InitConfig == avail = {"matplotlib"} /\ Fresh

NextConfig ==
    \/ \E name \in PresetNames : RegisterPreset(name)
    \/ \E name \in LoadedPresetNames : UnregisterPreset(name)
    \/ \E name \in LoadedPresetNames : GetPreset(name)
    \/ \E c \in ColorwayArgs : RegisterColorway(c)
    \/ \E name \in ColorwayNames : UnregisterColorway(name)
    \/ \E name \in ColorwayNames : GetColorway(name)
    \/ \E file \in PresetFiles : LoadPresetFromFile(file)
    \/ \E file \in PresetFiles : LoadPresetsFromFile(file)
    \/ \E file \in ColorwayFiles : LoadColorwayFromYaml(file)
    \/ \E file \in ColorwayFiles : LoadColorwaysFromYaml(file)
    \/ \E fs \in FileSystems : LoadConfig(fs)

SpecConfig == InitConfig /\ [][NextConfig]_vars

\* Figures saved through pyplot while the matplotlib and seaborn adapters
\* install and remove their watermarks.
InitSavefig == avail = {"matplotlib", "seaborn"} /\ Fresh

NextSavefig ==
    \/ \E name \in {"matplotlib", "seaborn"} : AdapterAddWatermark(name, "draft")
    \/ \E name \in {"matplotlib", "seaborn"} : AdapterResetStyle(name)
    \/ Savefig
    \/ NewFigure

SpecSavefig == InitSavefig /\ [][NextSavefig]_vars

\* publication_style blocks, nested up to MaxNesting deep, around the user's
\* own configuration changes.
NextBlocks ==
    \/ \E c \in Calls : Enter(c.mode, c.libraries, c.cw, c.wm)
    \/ \E raised \in BOOLEAN : Exit(raised)
    \/ \E name \in Libs \ {"seaborn"} : UserConfigure(name)

SpecBlocks == Init /\ [][NextBlocks]_vars

\* Global applies and resets with the discovery service's caches cleared in
\* between.
NextCache ==
    \/ \E c \in Calls : Apply(c.mode, c.libraries, c.cw, c.wm)
    \/ \E libraries \in ResetArgs : Reset(libraries)
    \/ ClearCache

SpecCache == Init /\ [][NextCache]_vars

\* The discovery service driven directly.
NextDiscovery ==
    \/ \E name \in LibraryNames : GetAdapter(name)
    \/ \E name \in LibraryNames : GetLibraryInfo(name)
    \/ ClearCache

SpecDiscovery == Init /\ [][NextDiscovery]_vars

\* The parser and the constructors as functions of their arguments.
InitParse ==
    /\ avail = {"matplotlib"}
    /\ FreshProgram
    /\ \/ \E data \in PresetDicts :
            last = [op |-> "input", kind |-> "preset dict", data |-> data]
       \/ \E args \in WatermarkArgs :
            last = [op |-> "input", kind |-> "watermark args", data |-> args]
       \/ \E preset \in PresetObjects :
            last = [op |-> "input", kind |-> "preset", data |-> preset]
       \/ \E args \in PositionArgs :
            last = [op |-> "input", kind |-> "position args", data |-> args]

NextParse ==
    \/ ParsePreset
    \/ ConstructWatermark
    \/ \E name \in Libs, readable \in BOOLEAN : SaveWithWatermark(name, readable)
    \/ \E name \in {"matplotlib", "plotly", "altair"} : ConfigureFonts(name)
    \/ GetWatermarkPosition

SpecParse == InitParse /\ [][NextParse]_vars

\* ------------------------------------------------------------------- claims

\* C1: for every adapter, after apply_style has been called twice or more
\* without a reset_style in between, a reset_style leaves the library's
\* configuration equal to the one it had before the first of those applies.
C1_ResetRestoresPreFirstApply ==
    [][ (last'.op = "reset_style" /\ cyc[last'.lib].applies = 2)
            => Some(LibConfig(lib', last'.lib)) = cyc[last'.lib].before ]_vars

\* C3: for every adapter, a reset_style that follows the installation of a
\* watermark leaves the intercepted entry point equal to the function it was
\* before the watermark was installed.
C3_ResetRestoresEntryPoint ==
    [][ (last'.op = "reset_style" /\ cyc[last'.lib].entry0 # None)
            => EntryPoint(lib', last'.lib) = cyc[last'.lib].entry0[1] ]_vars

\* C5: a reset_style on an adapter that is uninitialized (never styled, or
\* styled and since reset) does not raise and leaves the library's
\* configuration as it was just before the call.
C5_ResetUninitializedIsNoOp ==
    [][ (last'.op = "reset_style" /\ cyc[last'.lib].phase = "uninitialized")
            => /\ last'.exc = "none"
               /\ LibConfig(lib', last'.lib) = LibConfig(lib, last'.lib) ]_vars

\* C2: whenever a publication_style block has been left, normally or by an
\* exception raised in its body, reset_style has been called on every adapter
\* the block styled on entry (the adapter is back at the start of its cycle)
\* and the style registry lists none of them as active.
C2_ExitResetsEveryStyledAdapter ==
    last.op = "exit" =>
        \A i \in DOMAIN last.active_libraries :
            LET n == last.active_libraries[i]
            IN  /\ n \in last.reset
                /\ cyc[n] = NewCycle
                /\ n \notin DOMAIN registry.active_presets

\* A block that styled matplotlib has been left by an exception.
C2_Witness ==
    /\ last.op = "exit"
    /\ last.raised
    /\ last.active_libraries = <<"matplotlib">>

\* C4: when a global reset with no library list returns and no block is
\* open, every library that a global apply styled since the last such reset
\* has the configuration it had before the most recent of those applies, and
\* the registry lists no adapter as active, whatever blocks were entered and
\* left in between.
C4_GlobalResetRestoresApplied ==
    [][ (last'.op = "reset" /\ last'.libraries = None /\ last'.exc = "none"
            /\ contexts = << >>)
            => /\ \A n \in DOMAIN global_before :
                        LibConfig(lib', n) = global_before[n]
               /\ list_active_adapters(registry') = << >> ]_vars

\* The colorway a preset is constructed with, or the mode's default.
DeclaredColorway(mode) ==
    IF PresetDef[mode] # NoColorway THEN PresetDef[mode]
    ELSE IF mode = "presentation" THEN "vibrant" ELSE "default"

\* C7: in every apply call that styles an adapter, the colorway handed to the
\* adapters is the one passed explicitly, else the one the preset declares,
\* else vibrant for "presentation" and default for any other mode, whatever
\* earlier calls were given.
C7_ColorwayResolution ==
    (last.op = "apply" /\ last.styled # {}) =>
        last.colorway = IF last.cw.kind = "none" THEN DeclaredColorway(last.mode)
                                                 ELSE last.cw.name

\* The known library names in a libraries list.
KnownNames(libraries) ==
    {libraries[1][i] : i \in DOMAIN libraries[1]} \cap Libs

HasUnknownName(libraries) ==
    /\ libraries # None
    /\ \E i \in DOMAIN libraries[1] : libraries[1][i] \notin Libs

\* C8: an apply or a block entry whose libraries list holds an unknown name
\* raises nothing for it, and every other named library that is available is
\* styled and recorded in the registry.
C8_UnknownLibrarySkipped ==
    (last.op \in {"apply", "enter"} /\ HasUnknownName(last.libraries)) =>
        /\ last.exc = "none"
        /\ \A n \in KnownNames(last.libraries) \cap avail :
                /\ cyc[n].phase = "styled"
                /\ n \in DOMAIN registry.active_presets

\* The adapters an apply call selects.
Selected(libraries) ==
    IF libraries = None THEN avail ELSE KnownNames(libraries) \cap avail

\* C9: once an apply call has selected its adapters, no failure inside an
\* adapter reaches the caller, and every selected adapter is processed.
C9_AdapterFailureContained ==
    (last.op = "apply" /\ last.exc # "ValueError") =>
        /\ last.exc = "none"
        /\ \A n \in Selected(last.libraries) : cyc[n].phase = "styled"

\* C10: every built-in preset is registered in every reachable state, and
\* unregister_preset on a built-in name fails with "Cannot unregister
\* built-in".
C10_BuiltinsProtected ==
    /\ BuiltinPresets \subseteq DOMAIN presets
    /\ (last.op = "unregister_preset" /\ last.name \in BuiltinPresets)
            => last.exc = "ValueError: Cannot unregister built-in"

C11_RegistryFailuresChangeNothing ==
    [][ /\ (last'.op = "register_colorway" /\ last'.name \in DOMAIN colorways)
            => /\ last'.exc = "ValueError: already exists"
               /\ UNCHANGED <<colorways, presets>>
        /\ (last'.op = "unregister_colorway" /\ last'.name \notin DOMAIN colorways)
            => /\ last'.exc = "ValueError: not found"
               /\ UNCHANGED <<colorways, presets>>
        /\ (last'.op = "get_colorway" /\ last'.name \notin DOMAIN colorways)
            => /\ last'.exc = "ValueError: Unknown colorway"
               /\ UNCHANGED <<colorways, presets>>
        /\ (last'.op = "register_preset" /\ last'.name \in DOMAIN presets)
            => /\ last'.exc = "ValueError: already exists"
               /\ UNCHANGED <<colorways, presets>>
        /\ (last'.op = "unregister_preset" /\ last'.name \notin DOMAIN presets)
            => /\ last'.exc = "ValueError: not found"
               /\ UNCHANGED <<colorways, presets>>
        /\ (last'.op = "get_preset" /\ last'.name \notin DOMAIN presets)
            => /\ last'.exc = "ValueError: Unknown preset"
               /\ UNCHANGED <<colorways, presets>>
      ]_vars

\* A colorway that the caller registered under a new name is there, and a
\* second register_colorway under that name has just failed.
C11_Witness ==
    /\ last.op = "register_colorway"
    /\ last.exc = "ValueError: already exists"
    /\ last.name = "lab"
    /\ "lab" \in DOMAIN colorways

\* A preset dict that lacks nothing: the required keys are there, the
\* figure size is a pair, a colorway named by reference is registered.
LacksNothing(data) ==
    /\ {"name", "mode", "figure"} \subseteq DOMAIN data
    /\ "size" \in DOMAIN data.figure
    /\ Len(data.figure.size) = 2
    /\ "colorway" \in DOMAIN data =>
            IF data.colorway.kind = "str"
            THEN data.colorway.value \in COLORWAY_REGISTRY
            ELSE IF DOMAIN data.colorway.value = {"name"}
            THEN data.colorway.value.name \in COLORWAY_REGISTRY
            ELSE {"name", "description"} \subseteq DOMAIN data.colorway.value
    /\ "watermark" \in DOMAIN data =>
            \/ Get(data.watermark, "type", "text") = "text"
                    /\ "text" \in DOMAIN data.watermark
            \/ Get(data.watermark, "type", "text") = "image"
                    /\ "image_path" \in DOMAIN data.watermark

Malformed(colors) == Len(SelectSeq(colors, LAMBDA c : ~is_valid_hex_color(c)))

Count(invalid) == IF invalid THEN 1 ELSE 0

\* The number of fields of a preset dict whose value is invalid.
InvalidFields(data) ==
    LET fonts == Get(Get(data, "typography", EmptyMap), "font_sizes",
                     [keys |-> << >>, value |-> EmptyMap])
        colors == IF "colorway" \in DOMAIN data /\ data.colorway.kind = "dict"
                  THEN Get(data.colorway.value, "colors", EmptyMap) ELSE EmptyMap
        wm == Get(data, "watermark", EmptyMap)
    IN  Count(data.name = "")
        + Count(data.figure.size[1] <= 0) + Count(data.figure.size[2] <= 0)
        + Count(Get(data.figure, "dpi", 300) <= 0)
        + Count(Get(Get(data, "elements", EmptyMap), "line_width", 150) <= 0)
        + Cardinality({k \in DOMAIN fonts.value :
                          k \notin valid_font_keys \/ fonts.value[k] <= 0})
        + Malformed(Get(colors, "categorical", << >>))
        + Malformed(Get(colors, "sequential", << >>))
        + Count(~(0 <= Get(wm, "opacity", 30) /\ Get(wm, "opacity", 30) <= 100))
        + Count(~is_valid_hex_color(Get(wm, "font_color", Blue)))
        + Count(Get(wm, "font_size", 12) <= 0)

\* C12: parsing a YAML preset that lacks nothing and has several invalid
\* fields raises one YAMLValidationError whose error list has one entry for
\* each invalid field.
C12_ValidationAggregatesAllFields ==
    (/\ last.op = "parse_preset"
     /\ LacksNothing(last.data)
     /\ InvalidFields(last.data) >= 2)
        => /\ last.r.exc = "YAMLValidationError"
           /\ Len(last.r.errors) = InvalidFields(last.data)

\* A registered preset that a loader built: the built-in presets are
\* modelled without their font family, line width and marker size.
FromYaml(preset) == "font_family" \in DOMAIN preset

\* The preset dicts of a file that holds one preset or a list of them.
DictsOf(file) ==
    IF "presets" \in DOMAIN file.data THEN file.data.presets ELSE <<file.data>>

\* C13: every preset a loader has put in the registry passes validate_preset;
\* load_preset_from_file and load_presets_from_file register nothing when
\* the parser raises a parse or a validation error; what load_config adds
\* comes from a file that loaded without error.
C13_OnlyValidatedPresetsRegistered ==
    [][ /\ \A n \in DOMAIN presets' :
                FromYaml(presets'[n]) => validate_preset(presets'[n]) = << >>
        /\ (/\ last'.op \in {"load_preset_from_file", "load_presets_from_file"}
            /\ last'.exc \in {"YAMLParseError", "YAMLValidationError"})
                => UNCHANGED presets
        /\ last'.op = "load_config" =>
                \A n \in DOMAIN presets' \ DOMAIN presets :
                    \E i \in 1..4 :
                        /\ load_presets_from_yaml(colorways, last'.fs.presets[i]).exc
                                = "none"
                        /\ \E k \in DOMAIN DictsOf(last'.fs.presets[i]) :
                                /\ DictsOf(last'.fs.presets[i])[k].name = n
                                /\ parse_preset_from_dict(
                                        colorways, DictsOf(last'.fs.presets[i])[k],
                                        BasePath) = Return(presets'[n])
      ]_vars

\* load_presets_from_file has just raised a validation error for a file
\* whose first preset is valid and whose second is not, and the first is not
\* in the registry.
C13_Witness ==
    /\ last.op = "load_presets_from_file"
    /\ last.exc = "YAMLValidationError"
    /\ last.file = File([presets |-> <<LabDict(150), BadThesisDict>>])
    /\ "lab" \notin DOMAIN presets

\* The required keys a preset dict lacks: at its top level (figure.size is
\* required as a pair), in an inline colorway, in its watermark block.
TopLevelMissing(data) ==
    {k \in {"name", "mode"} : k \notin DOMAIN data}
    \cup (IF "size" \notin DOMAIN Get(data, "figure", EmptyMap)
          THEN {"figure.size"}
          ELSE IF Len(data.figure.size) # 2 THEN {"figure.size length"} ELSE {})

InlineColorway(data) ==
    /\ "colorway" \in DOMAIN data
    /\ data.colorway.kind = "dict"
    /\ DOMAIN data.colorway.value # {"name"}

ColorwayMissing(data) ==
    IF InlineColorway(data)
    THEN {k \in {"name", "description"} : k \notin DOMAIN data.colorway.value}
    ELSE {}

WatermarkMissing(data) ==
    IF "watermark" \notin DOMAIN data THEN {}
    ELSE IF Get(data.watermark, "type", "text") = "text"
    THEN {k \in {"text"} : k \notin DOMAIN data.watermark}
    ELSE IF Get(data.watermark, "type", "text") = "image"
    THEN {k \in {"image_path"} : k \notin DOMAIN data.watermark}
    ELSE {}

MissingFields(data) ==
    TopLevelMissing(data) \cup ColorwayMissing(data) \cup WatermarkMissing(data)

AcceptedBeforeWatermark(data) ==
    "colorway" \in DOMAIN data =>
            IF data.colorway.kind = "str"
            THEN data.colorway.value \in COLORWAY_REGISTRY
            ELSE IF ~InlineColorway(data)
            THEN data.colorway.value.name \in COLORWAY_REGISTRY
            ELSE ColorwayMissing(data) # {}
                 \/ /\ data.colorway.value.name # ""
                    /\ data.colorway.value.description # ""
                    /\ \A t \in DOMAIN Get(data.colorway.value, "colors", EmptyMap) :
                            Malformed(data.colorway.value.colors[t]) = 0

C15_LoadersRegisterWhatTheyReturn ==
    (/\ last.op \in {"load_preset_from_file", "load_presets_from_file",
                     "load_colorway_from_yaml", "load_colorways_from_yaml"}
     /\ last.exc = "none")
        => \A i \in DOMAIN last.returned :
               IF last.kind = "preset"
               THEN get_preset(presets, last.returned[i].name)
                        = [preset |-> Some(last.returned[i]), exc |-> "none"]
               ELSE get_colorway(colorways, last.returned[i].name)
                        = [colorway |-> Some(last.returned[i]), exc |-> "none"]

\* C16: when the watermark config has both an image path and a text, every
\* adapter renders the image watermark and ignores the text.
C16_ImageWinsOverText ==
    (/\ last.op = "save_with_watermark"
     /\ last.config.image_path # None
     /\ last.config.text # None
     /\ last.readable)
        => last.drawn = <<[kind |-> "image",
                           image_path |-> last.config.image_path[1]]>>

\* C17: constructing a WatermarkConfig raises a ValueError when neither
\* text nor image_path is given, when the position is not one of the five
\* named ones, when opacity or scale is outside [0, 1], or when margin is
\* not a pair or has a component outside [0, 1]; for every other
\* combination, both image_path and text given included, it succeeds with
\* the arguments as its fields.
C17_WatermarkConfigConstruction ==
    last.op = "WatermarkConfig" =>
        IF \/ last.data.image_path = None /\ last.data.text = None
           \/ last.data.position \notin {"top-left", "top-right", "bottom-left",
                                         "bottom-right", "center"}
           \/ last.data.opacity < 0 \/ last.data.opacity > 100
           \/ last.data.scale < 0 \/ last.data.scale > 100
           \/ Len(last.data.margin) # 2
           \/ \E i \in DOMAIN last.data.margin :
                  last.data.margin[i] < 0 \/ last.data.margin[i] > 100
        THEN last.r.exc = "ValueError" /\ last.r.value = None
        ELSE last.r.exc = "none" /\ last.r.value = Some(last.data)

\* A WatermarkConfig with both an image path and a text has been
\* constructed.
C17_Witness ==
    /\ last.op = "WatermarkConfig"
    /\ last.data.image_path # None
    /\ last.data.text # None
    /\ last.r.exc = "none"
    /\ last.r.value[1].text = Some("draft")

\* C18: the plotly and altair adapters convert the preset's font sizes from
\* points to pixels with the one fixed ratio 96/72, whatever the preset's
\* dpi; the matplotlib adapter uses the sizes in points unchanged.  (Pixel
\* sizes in 72nds of a pixel.)
C18_FixedPointToPixelRatio ==
    last.op = "configure_fonts" =>
        \E points \in {[ title  |-> Get(last.preset.font_size.value, "title", 14),
                         label  |-> Get(last.preset.font_size.value, "label", 12),
                         tick   |-> Get(last.preset.font_size.value, "tick", 10),
                         legend |-> Get(last.preset.font_size.value, "legend", 10) ]} :
            IF last.adapter = "matplotlib"
            THEN last.fonts = Some([unit |-> "pt", sizes |-> points])
            ELSE last.fonts = Some([unit |-> "px/72",
                                    sizes |-> [k \in DOMAIN points |-> 96 * points[k]]])

\* C19: for an available library, get_adapter returns the same adapter
\* instance on every call for the rest of the process: one adapter instance
\* per library is ever constructed and returned, and a library's
\* availability is probed once.
C19_OneAdapterPerProcess ==
    /\ \A name \in avail : /\ discovery.constructed[name] <= 1
                            /\ discovery.probes[name] <= 1
    /\ (last.op = "get_adapter" /\ last.adapter # None) => last.instance = 1

\* C19, amended: between two calls of clear_cache.  At most one adapter
\* instance per library is constructed, and the library probed at most
\* once, before the first clear_cache and after each one; and while a
\* library's adapter is cached, every step other than clear_cache leaves
\* it cached, constructs no instance of it, does not probe the library
\* again, and get_adapter returns that instance.
C19_OneAdapterPerCacheLifetime ==
    /\ [](\A name \in Libs :
            /\ discovery.constructed[name] <= discovery.clears + 1
            /\ discovery.probes[name] <= discovery.clears + 1)
    /\ [][\A name \in Libs :
            (/\ name \in DOMAIN discovery.adapter_cache
             /\ discovery.adapter_cache[name] # None
             /\ last'.op # "clear_cache")
                => /\ name \in DOMAIN discovery'.adapter_cache
                   /\ discovery'.adapter_cache[name] = discovery.adapter_cache[name]
                   /\ discovery'.constructed[name] = discovery.constructed[name]
                   /\ discovery'.probes[name] = discovery.probes[name]
                   /\ (last'.op = "get_adapter" /\ last'.name = name)
                        => /\ last'.adapter = discovery.adapter_cache[name]
                           /\ last'.instance = discovery.constructed[name]]_vars

\* get_adapter has been called for a library whose adapter was already
\* cached after a clear_cache, and returned the second instance again.
C19_Witness ==
    /\ last.op = "get_adapter"
    /\ last.adapter # None
    /\ last.cached
    /\ discovery.clears = 1
    /\ last.instance = 2
    /\ discovery.probes[last.name] = 2
    /\ discovery.constructed[last.name] = 2

\* The definition of a preset name in the earliest of some locations that
\* holds a preset dict of that name which parses by itself, if any.
Defining(cs, file, name) ==
    IF file.kind # "doc" THEN << >>
    ELSE SelectSeq(DictsOf(file),
                   LAMBDA d : /\ Get(d, "name", "") = name
                              /\ parse_preset_from_dict(cs, d, BasePath).exc = "none")

RECURSIVE EarliestDefinition(_, _, _)
EarliestDefinition(cs, locations, name) ==
    IF locations = << >> THEN None
    ELSE IF Defining(cs, Head(locations), name) # << >>
    THEN parse_preset_from_dict(cs, Defining(cs, Head(locations), name)[1],
                                BasePath).value
    ELSE EarliestDefinition(cs, Tail(locations), name)

\* The same over the locations whose file loads without error as a whole.
LoadsWhole(cs, locations) ==
    SelectSeq(locations,
              LAMBDA f : load_presets_from_yaml(cs, f).exc = "none")

\* The preset names of the configuration files, and a built-in one.
ConfigNames == {"lab", "thesis", "article"}

\* What load_config leaves in the registry under name, given the definition
\* that is due.
Settled(name, due) ==
    IF name \in DOMAIN presets
    THEN name \in DOMAIN presets' /\ presets'[name] = presets[name]
    ELSE IF due = None THEN name \notin DOMAIN presets'
    ELSE name \in DOMAIN presets' /\ presets'[name] = due[1]

\* C20: load_config visits the preset locations in the order project-root
\* sane_figs.yaml, project .sane_figs/presets.yaml, user-config
\* presets.yaml, user-home .sane_figs.yaml; of a preset name defined in
\* several of them, the definition of the earliest location is the one
\* registered; a name that was already registered keeps its definition.
C20_EarliestLocationWins ==
    [][last'.op = "load_config" =>
           \A name \in ConfigNames :
               Settled(name, EarliestDefinition(colorways, last'.fs.presets, name))
      ]_vars

\* C20, amended: of a preset name defined in several locations, the
\* definition of the earliest location whose file loads without error is
\* the one registered; a file in which any preset fails to parse or to
\* validate counts for nothing.  A name that was already registered keeps
\* its definition.
C20_EarliestLoadedLocationWins ==
    [][last'.op = "load_config" =>
           \A name \in ConfigNames :
               Settled(name, EarliestDefinition(
                                 colorways,
                                 LoadsWhole(colorways, last'.fs.presets), name))
      ]_vars

\* load_config has registered "lab" as the second location defines it, the
\* first location holding none, while the last location defines it too.
C20_Witness ==
    /\ last.op = "load_config"
    /\ last.fs.presets[1] = Missing
    /\ last.fs.presets[2] = File(LabDict(150))
    /\ "lab" \in DOMAIN presets
    /\ presets["lab"].dpi = 150

\* C21: for a figure (W, H), a watermark (w, h) and margins (mx, my),
\* get_watermark_position returns (mx*W, H-h-my*H) for top-left,
\* (W-w-mx*W, H-h-my*H) for top-right, (mx*W, my*H) for bottom-left,
\* (W-w-mx*W, my*H) for bottom-right and ((W-w)/2, (H-h)/2) for center, and
\* raises "Unknown position" for every other name.  (Coordinates in
\* hundredths, as the margins are.)
C21_WatermarkPosition ==
    last.op = "get_watermark_position" =>
        \E a \in {last.data} :
            \E left \in {a.mx * a.W}, right \in {100 * a.W - 100 * a.w - a.mx * a.W},
               bottom \in {a.my * a.H}, top \in {100 * a.H - 100 * a.h - a.my * a.H} :
                CASE a.position = "top-left" -> last.r = Return(<<left, top>>)
                  [] a.position = "top-right" -> last.r = Return(<<right, top>>)
                  [] a.position = "bottom-left" -> last.r = Return(<<left, bottom>>)
                  [] a.position = "bottom-right" -> last.r = Return(<<right, bottom>>)
                  [] a.position = "center" ->
                        /\ last.r.exc = "none"
                        /\ 2 * last.r.value[1][1] = 100 * (a.W - a.w)
                        /\ 2 * last.r.value[1][2] = 100 * (a.H - a.h)
                  [] OTHER -> /\ last.r.exc = "ValueError"
                              /\ last.r.detail = "Unknown position"

\* The position of a 10 by 10 watermark at the top right of a 100 by 100
\* figure with margins of 0.02 has been computed as (88, 88).
C21_Witness ==
    /\ last.op = "get_watermark_position"
    /\ last.data = [position |-> "top-right", W |-> 100, H |-> 100, w |-> 10,
                    h |-> 10, mx |-> 2, my |-> 2]
    /\ last.r = Return(<<8800, 8800>>)

\* C22: in every state reached through apply, reset, publication_style
\* blocks and registrations of other names, get_preset("article") returns a
\* preset with figure_size (3.5, 2.625), dpi 300 and title font size 9, and
\* get_preset("presentation") one with figure_size (13.33, 7.5), dpi 150 and
\* title font size 28.  (Figure sizes in thousandths of an inch.)
C22_BuiltinPresetValues ==
    /\ get_preset(presets, "article").exc = "none"
    /\ get_preset(presets, "article").preset[1].figure_size = <<3500, 2625>>
    /\ get_preset(presets, "article").preset[1].dpi = 300
    /\ get_preset(presets, "article").preset[1].font_size.title = 9
    /\ get_preset(presets, "presentation").exc = "none"
    /\ get_preset(presets, "presentation").preset[1].figure_size = <<13330, 7500>>
    /\ get_preset(presets, "presentation").preset[1].dpi = 150
    /\ get_preset(presets, "presentation").preset[1].font_size.title = 28

\* An apply of "article" with the colorway "nature" and a watermark has
\* returned, the stored preset "article" carries them, and its figure size
\* is still (3.5, 2.625).
C22_Witness ==
    /\ last.op = "apply"
    /\ last.mode = "article"
    /\ last.exc = "none"
    /\ presets["article"].colorway = "nature"
    /\ presets["article"].watermark = "draft"
    /\ get_preset(presets, "article").preset[1].figure_size = <<3500, 2625>>

\* C23: while a watermark is active, each saved figure carries exactly one
\* watermark, however many times the same figure is saved and however many
\* of the matplotlib and seaborn adapters have a watermark installed on the
\* shared pyplot.savefig.
C23_OneWatermarkPerSavedFigure ==
    (last.op = "savefig" /\ last.active) => last.written = 1

\* C24: once the matplotlib and the seaborn adapter have both installed a
\* watermark, in either order, and reset_style has been called on both, in
\* either order, so that neither holds an interception any more,
\* pyplot.savefig is the function that was in place before the first
\* wrapper was installed.
C24_SavefigRestoredAfterBothReset ==
    (/\ last.op = "reset_style"
     /\ ad.matplotlib.original_savefig = None
     /\ ad.seaborn.original_savefig = None)
        => lib.savefig = InitLib.savefig

\* What the style registry records for an adapter.
Records(r, name) ==
    [ preset    |-> IF name \in DOMAIN r.active_presets
                    THEN Some(r.active_presets[name]) ELSE None,
      colorway  |-> IF name \in DOMAIN r.active_colorways
                    THEN Some(r.active_colorways[name]) ELSE None,
      watermark |-> IF name \in DOMAIN r.active_watermarks
                    THEN Some(r.active_watermarks[name]) ELSE None,
      original  |-> IF name \in DOMAIN r.original_settings
                    THEN Some(r.original_settings[name]) ELSE None ]

\* C25: a global reset given a list of libraries changes nothing for the
\* available adapters that are not in the list: their style-registry
\* records, the configuration their library renders with and the entry point
\* their watermark intercepts are after the call what they were before it.
C25_RestrictedResetLeavesOthersAlone ==
    [][ (last'.op = "reset" /\ last'.libraries # None)
            => \A n \in avail \ KnownNames(last'.libraries) :
                    /\ Records(registry', n) = Records(registry, n)
                    /\ LibConfig(lib', n) = LibConfig(lib, n)
                    /\ EntryPoint(lib', n) = EntryPoint(lib, n) ]_vars

\* C26: apply calls and publication_style blocks leave the preset registry's
\* presets as they were registered: in every reachable state each registered
\* preset has the colorway and the watermark it was registered with.
C26_ApplyLeavesStoredPresetAlone ==
    \A n \in DOMAIN presets :
        /\ presets[n].colorway = NewPreset(n).colorway
        /\ presets[n].watermark = NewPreset(n).watermark

\* C27: when a publication_style block is left, every library the block
\* styled has the global configuration that was in force when that block was
\* entered: the outer block's styling for an inner block, the configuration
\* before any block for the outermost one.
C27_ExitRestoresConfigurationAtEntry ==
    [][ last'.op = "exit"
            => \A i \in DOMAIN last'.active_libraries :
                    LibConfig(lib', last'.active_libraries[i])
                        = Head(contexts).entered[last'.active_libraries[i]]
      ]_vars

\* The watermark an apply call resolves: the one it is given, else the one
\* the preset was registered with.
ResolvedWatermark(mode, wm) ==
    IF wm # NoWatermark THEN wm ELSE NewPreset(mode).watermark

\* An adapter's watermark interception is in place.
Intercepting(name) ==
    \/ ad[name].watermark_config # NoWatermark
    \/ \E i \in DOMAIN EntryPoint(lib, name) : EntryPoint(lib, name)[i] = name

\* C28: when an apply call has returned, the style registry's record for
\* each adapter it styled holds the preset, the colorway and the watermark
\* this call applied; if the call resolved no watermark the adapter has no
\* recorded watermark and no watermark installed, whatever earlier applies
\* were given.
C28_RegistryRecordsThisApply ==
    (last.op = "apply" /\ last.exc = "none") =>
        \A n \in last.styled :
            /\ Records(registry, n).preset = Some(last.mode)
            /\ Records(registry, n).colorway = Some(last.colorway)
            /\ IF ResolvedWatermark(last.mode, last.wm) # NoWatermark
               THEN Records(registry, n).watermark
                        = Some(ResolvedWatermark(last.mode, last.wm))
               ELSE /\ Records(registry, n).watermark = None
                    /\ ~ Intercepting(n)

\* C29: a global reset that directly follows a clearing of the discovery
\* cache restores, for every adapter it resets that one apply had styled,
\* the library configuration from before that apply and the entry point from
\* before its watermark was installed.
C29_ResetAfterClearCacheRestores ==
    [][ (last.op = "clear_cache" /\ last'.op = "reset" /\ last'.exc = "none")
            => \A n \in DOMAIN registry.active_presets \ DOMAIN registry'.active_presets :
                    (cyc[n].applies = 1)
                        => /\ Some(LibConfig(lib', n)) = cyc[n].before
                           /\ cyc[n].entry0 # None
                                => EntryPoint(lib', n) = cyc[n].entry0[1] ]_vars

\* C30: a load_presets_from_file call that raises, for whatever reason,
\* leaves the preset registry as it was: none of the file's presets has been
\* added.
C30_LoadPresetsAllOrNothing ==
    [][ (last'.op = "load_presets_from_file" /\ last'.exc # "none")
            => presets' = presets ]_vars

====
